---- MODULE Spec2Model ----
(***************************************************************************)
(* Model of src/web/middleware.go: the request-context middleware chain of *)
(* the web console (cache client, session, user/guilds, active guild, bot  *)
(* member and permissions, form parsing) and the controller adapters.      *)
(*                                                                         *)
(* Every inbound request r runs the handlers one after another: of req[r], *)
(* pc is the handler about to run, ctx the context.Context that handler    *)
(* receives, stack the deferred calls of the handlers that have not yet    *)
(* returned, trace the calls the request has made so far.                  *)
(***************************************************************************)
EXTENDS Integers, Sequences, FiniteSets, TLC

\* ------------------------------------------------------------------ bounds
NumReqs == 2        \* requests in the model
MaxRoles == 2       \* longest role list of a fetched guild
MaxGuilds == 2      \* longest membership list

\* ------------------------------------------------------- program constants
StaticPrefixLen == 8                \* len("/static/")
StatusTemporaryRedirect == 307      \* net/http
StatusOK == 200                     \* net/http, implicit status of a Write
StatusInternalServerError == 500
UserCacheTTL == 3600                \* seconds

Reqs == 1..NumReqs

\* ---------------------------------------------------------------- optionals
\* A nil-able value (a missing context key, a nil pointer) is <<>> or <<v>>.
None == <<>>
Some(v) == <<v>>
Has(o) == o # <<>>
Val(o) == o[1]

\* ------------------------------------------------------------------ strings
\* Strings the code inspects character by character are sequences of
\* one-character strings.
Range(s) == {s[i] : i \in 1..Len(s)}

Count(s, e) == Cardinality({i \in 1..Len(s) : s[i] = e})

\* simple case folding of the characters the model uses (unicode.SimpleFold)
FoldChar(c) ==
    CASE c = "H" -> "h" [] c = "T" -> "t" [] c = "P" -> "p" [] c = "S" -> "s"
      [] c = "A" -> "a" [] c = "B" -> "b" [] c = "X" -> "x"
      [] OTHER -> c

\* strings.EqualFold(s, t)
EqualFold(s, t) ==
    /\ Len(s) = Len(t)
    /\ \A i \in 1..Len(s) : FoldChar(s[i]) = FoldChar(t[i])

\* strconv.ParseInt(s, 10, 64) succeeds: an optional sign, then one or more
\* decimal digits, of a value from -2^63 to 2^63 - 1. The value is compared
\* digit by digit.
Digits == {"0", "1", "2", "3", "4", "5", "6", "7", "8", "9"}

DigitValue(c) == CHOOSE n \in 0..9 : <<"0", "1", "2", "3", "4", "5", "6", "7", "8", "9">>[n + 1] = c

MaxInt64 ==
    <<"9", "2", "2", "3", "3", "7", "2", "0", "3", "6", "8", "5", "4", "7", "7", "5", "8", "0", "7">>

RECURSIVE DropZeros(_)
DropZeros(d) == IF d # <<>> /\ Head(d) = "0" THEN DropZeros(Tail(d)) ELSE d

\* a <= b for digit sequences of one length
RECURSIVE DigitsLeq(_, _)
DigitsLeq(a, b) ==
    IF a = <<>> THEN TRUE
    ELSE IF Head(a) # Head(b) THEN DigitValue(Head(a)) < DigitValue(Head(b))
    ELSE DigitsLeq(Tail(a), Tail(b))

\* the digits are a value of the int64 range; the negative range has one more
InRange64(body, neg) ==
    LET d == DropZeros(body)
        limit == IF neg THEN [MaxInt64 EXCEPT ![Len(MaxInt64)] = "8"] ELSE MaxInt64
    IN  \/ Len(d) < Len(limit)
        \/ Len(d) = Len(limit) /\ DigitsLeq(d, limit)

ParseIntOk_NoRange(s) ==
    LET body == IF Len(s) > 0 /\ s[1] \in {"+", "-"} THEN Tail(s) ELSE s
    IN  /\ Len(body) > 0
        /\ \A i \in 1..Len(body) : body[i] \in Digits

ParseIntOk(s) ==
    LET neg == Len(s) > 0 /\ s[1] = "-"
        body == IF Len(s) > 0 /\ s[1] \in {"+", "-"} THEN Tail(s) ELSE s
    IN  /\ Len(body) > 0
        /\ \A i \in 1..Len(body) : body[i] \in Digits
        /\ InRange64(body, neg)

\* url.QueryEscape on a sequence of words and separators: a space becomes "+"
QueryEscape(v) == [i \in 1..Len(v) |-> IF v[i] = " " THEN "+" ELSE v[i]]

\* url.Values{key: {v}}.Encode()
ValuesEncode(key, v) == <<key, "=">> \o QueryEscape(v)

\* ------------------------------------------------------------------ bit ops
RECURSIVE BitOr(_, _)
BitOr(a, b) ==
    IF a = 0 THEN b
    ELSE IF b = 0 THEN a
    ELSE (IF a % 2 = 1 \/ b % 2 = 1 THEN 1 ELSE 0) + 2 * BitOr(a \div 2, b \div 2)

RECURSIVE BitAnd(_, _)
BitAnd(a, b) ==
    IF a = 0 \/ b = 0 THEN 0
    ELSE (IF a % 2 = 1 /\ b % 2 = 1 THEN 1 ELSE 0) + 2 * BitAnd(a \div 2, b \div 2)

\* ------------------------------------------------------------------- state
VARIABLES
    mode,          \* the area whose inputs are drawn from their wide sets
                   \* while one request is in flight: "session", "guild",
                   \* "roles" or "form"; or "conc": every request is in
                   \* flight and all inputs are drawn from their small sets
    accepting,     \* IsAcceptingRequests()
    outstanding,   \* clients taken from common.RedisPool and not put back
    req            \* req[r]: the request r and everything that belongs to it:
                   \*   pc     the handler about to run, "idle", "unwind", "done"
                   \*   path, origin, cookie, server   the *http.Request
                   \*   ctx    the context.Context of the request in flight
                   \*   gobj   the *discordgo.Guild objects allocated so far
                   \*   tmpl   the TemplateData map (keys set, alerts added)
                   \*   stack  callers of inner.ServeHTTP with deferred work
                   \*   resp   the http.ResponseWriter (headers, writes)
                   \*   trace  the calls made so far, in order

vars == <<mode, accepting, outstanding, req>>

\* the inputs of area a are drawn from their wide sets
Wide(a) == mode = a

\* every request is in flight: the inputs are drawn from their smallest sets
Conc == mode = "conc"

\* ------------------------------------------------------------------ inputs
\* URL paths: the first StaticPrefixLen characters, the length, and the mux
\* the router sends the path to.
PathStatic == [pre |-> "/static/", len |-> 13, mux |-> "static"]
PathStaticDir == [pre |-> "/static/", len |-> 8, mux |-> "root"]
PathRoot == [pre |-> "/", len |-> 1, mux |-> "root"]
PathManage == [pre |-> "/manage/", len |-> 20, mux |-> "cp"]
PathPublic == [pre |-> "/public/", len |-> 20, mux |-> "public"]

Paths ==
    IF Wide("session") THEN {PathStatic, PathStaticDir, PathRoot, PathManage, PathPublic}
    ELSE IF Wide("guild") \/ Wide("roles") THEN {PathStatic, PathRoot, PathManage, PathPublic}
    ELSE IF Conc THEN {PathStatic, PathManage}
    ELSE {PathStatic, PathRoot, PathManage}

\* common.Conf.Host and the Origin headers sent ("" when the header is absent)
Host == <<"a", ".", "b">>
SchemeHTTPS == <<"h", "t", "t", "p", "s", ":", "/", "/">>
OriginNone == <<>>
OriginSame == SchemeHTTPS \o Host
OriginUpper == <<"H", "T", "T", "P", "S", ":", "/", "/", "A", ".", "B">>
OriginAttacker == SchemeHTTPS \o <<"x", ".", "b">>
OriginPlainHTTP == <<"h", "t", "t", "p", ":", "/", "/">> \o Host

Origins ==
    IF Wide("session") THEN {OriginNone, OriginSame, OriginUpper, OriginAttacker, OriginPlainHTTP}
    ELSE {OriginNone, OriginAttacker}

\* pat.Param(r, "server")
TooLarge == [MaxInt64 EXCEPT ![Len(MaxInt64)] = "8"]         \* 2^63

ServerParams ==
    IF Wide("guild") THEN {<<"1">>, <<"2">>, <<"x">>, <<"-", "1">>, <<>>, TooLarge}
    ELSE {<<"1">>, <<"x">>}

\* the session token kept in the cache for the session cookie
Token == "tok"

EmptyCtx ==
    [redis |-> FALSE, tmpl |-> FALSE, session |-> None, user |-> None,
     guilds |-> None, userGuild |-> None, curGuild |-> None, channels |-> FALSE,
     botMember |-> None, highest |-> None, perms |-> None,
     form |-> None, formOk |-> None]

EmptyTmpl == [keys |-> {}, alerts |-> <<>>, managed |-> <<>>]

EmptyResp == [hsts |-> FALSE, writes |-> <<>>]

IdleReq ==
    [pc |-> "idle", path |-> PathRoot, origin |-> OriginNone, cookie |-> FALSE,
     server |-> <<>>, ctx |-> EmptyCtx, gobj |-> <<>>, tmpl |-> EmptyTmpl,
     member |-> None, own |-> <<>>, audit |-> <<>>, pending |-> <<>>, stack |-> <<>>, resp |-> EmptyResp, trace |-> <<>>]

\* ---------------------------------------------------------------- the mux
\* Which handler a handler's `inner` is: the root chain, then the control
\* panel mux (/manage/:server), the public server mux (/public/:server) or
\* a page; the guild stages of a route are optional but keep their order.
Rank(h) ==
    CASE h = "RequireFullGuildMW" -> 1
      [] h = "RequireGuildChannelsMiddleware" -> 2
      [] h = "RequireBotMemberMW" -> 3
      [] h = "RequirePermMW" -> 4
      [] OTHER -> 5

GuildStages == {"RequireFullGuildMW", "RequireGuildChannelsMiddleware", "RequireBotMemberMW"}

Terminals(mux) ==
    IF mux = "cp" THEN {"ControllerHandler", "FormParserMW", "APIHandler"}
    ELSE {"ControllerHandler"}

\* the handlers that can follow h within a route: with wide guild or role
\* inputs any later guild stage or a terminal (with wide role inputs the
\* routes with guild stages end in a page), else the next stage only;
\* RequirePermMW is put behind RequireBotMemberMW
RouteStages(h, mux) ==
    LET rank == IF h \in GuildStages \cup {"RequirePermMW"} THEN Rank(h) ELSE 0
        perm == IF rank = 3 THEN {"RequirePermMW"} ELSE {}
    IN  IF Wide("guild") \/ Wide("roles")
        THEN {g \in GuildStages : Rank(g) > rank} \cup perm
                \cup (IF Wide("roles") /\ rank > 0 THEN {"ControllerHandler"}
                      ELSE Terminals(mux))
        ELSE IF rank < 3 THEN {g \in GuildStages : Rank(g) = rank + 1}
        ELSE IF rank = 3 THEN perm
        ELSE Terminals(mux)

Inner(h, path) ==
    CASE h = "MiscMiddleware" -> {"RedisMiddleware"}
      [] h = "RedisMiddleware" -> {"BaseTemplateDataMiddleware"}
      [] h = "BaseTemplateDataMiddleware" -> {"SessionMiddleware"}
      [] h = "SessionMiddleware" -> {"UserInfoMiddleware"}
      [] h = "UserInfoMiddleware" ->
            CASE path.mux = "static" -> {"FileServer"}
              [] path.mux = "cp" -> {"RequireSessionMiddleware"}
              [] path.mux = "public" -> {"ActiveServerMW"}
              [] OTHER -> {"ControllerHandler"}
      [] h = "RequireSessionMiddleware" -> {"ActiveServerMW"}
      [] h = "ActiveServerMW" ->
            IF path.mux = "public"
            THEN {"RequireActiveServer", "RequireBotMemberMW", "ControllerHandler"}
            ELSE {"RequireActiveServer"}
      [] h = "RequireActiveServer" ->
            IF path.mux = "cp" THEN {"RequireServerAdminMiddleware"}
            ELSE RouteStages(h, path.mux)
      [] h = "FormParserMW" -> {"SimpleConfigSaverHandler", "ControllerPostHandler"}
      [] OTHER -> RouteStages(h, path.mux)

\* ------------------------------------------------------- request plumbing
Log(s, e) == [s EXCEPT !.trace = Append(@, e)]

\* inner.ServeHTTP(w, r.WithContext(c)) called by handler h
Serve(s, h, nx, c) ==
    [Log(s, <<"serve", h, nx>>) EXCEPT !.pc = nx, !.ctx = c]

\* the handler returns without calling inner
Return(s) == [s EXCEPT !.pc = "unwind"]

\* panic(...) in a handler: the deferred calls of the callers still run
Panic(s, h) == [Log(s, <<"panic", h>>) EXCEPT !.pc = "unwind"]

\* w.Write / http.Redirect
Write(s, code, loc, body) ==
    [s EXCEPT !.resp.writes = Append(@, [code |-> code, loc |-> loc, body |-> body])]

Redirect(s, loc) == Write(s, StatusTemporaryRedirect, loc, "")

\* r.URL.Path has the /static/ prefix
IsStatic(path) == path.len > StaticPrefixLen /\ path.pre = "/static/"

Calls(s, h) == Cardinality({i \in 1..Len(s.trace) : s.trace[i][1] = "serve" /\ s.trace[i][2] = h})

Called(s, h) ==
    Cardinality({i \in 1..Len(s.trace) : s.trace[i][1] = "serve" /\ s.trace[i][3] = h})

\* how often the request made the call (kind, what), e.g. ("pool", "Get")
Did(s, kind, what) ==
    Cardinality({i \in 1..Len(s.trace) : s.trace[i][1] = kind /\ s.trace[i][2] = what})

\* -------------------------------------------------------------- lifecycle
Init ==
    /\ mode = "session"
    /\ accepting = TRUE
    /\ outstanding = 0
    /\ req = [r \in Reqs |-> IdleReq]

\* A request arrives; with mode "conc" any request may, otherwise request 1.
Arrive(r) ==
    /\ req[r].pc = "idle"
    /\ mode = "conc" \/ r = 1
    /\ \E p \in Paths :
          req' = [req EXCEPT ![r] = [@ EXCEPT !.pc = "MiscMiddleware", !.path = p]]
    /\ UNCHANGED <<mode, accepting, outstanding>>

\* common.Stop: the process stops accepting requests. Only MiscMiddleware
\* reads the flag, so unless the session inputs are wide the stop is taken
\* before the first request arrives or not at all.
Shutdown ==
    /\ accepting
    /\ Wide("session") \/ \A r \in Reqs : req[r].pc = "idle"
    /\ accepting' = FALSE
    /\ UNCHANGED <<mode, outstanding, req>>

\* MiscMiddleware
ShuttingDown == "{\"error\":\"Shutting down, try again in a minute\"}"

MiscServe(s, acc) ==
    IF ~acc
    THEN Return(Write(s, StatusOK, <<>>, ShuttingDown))
    ELSE Serve([s EXCEPT !.resp.hsts = TRUE], "MiscMiddleware", "RedisMiddleware", s.ctx)

MiscMiddleware(r) ==
    /\ req[r].pc = "MiscMiddleware"
    /\ req' = [req EXCEPT ![r] = MiscServe(@, accepting)]
    /\ UNCHANGED <<mode, accepting, outstanding>>

\* RedisMiddleware up to its call of inner: the client is taken from the
\* pool (got) and its Put is deferred.
RedisServe(s, got, nx) ==
    IF IsStatic(s.path) THEN Serve(s, "RedisMiddleware", nx, s.ctx)
    ELSE IF ~got THEN Serve(Log(s, <<"pool", "GetFailed">>), "RedisMiddleware", nx, s.ctx)
    ELSE Serve([Log(s, <<"pool", "Get">>) EXCEPT !.stack = Append(@, "RedisMiddleware")],
               "RedisMiddleware", nx, [s.ctx EXCEPT !.redis = TRUE])

RedisMiddleware(r) ==
    /\ req[r].pc = "RedisMiddleware"
    /\ \E got \in BOOLEAN, nx \in Inner("RedisMiddleware", req[r].path) :
          LET s == RedisServe(req[r], got, nx)
          IN  /\ req' = [req EXCEPT ![r] = s]
              /\ outstanding' = outstanding + Did(s, "pool", "Get")
    /\ UNCHANGED <<mode, accepting>>

\* SetContextTemplateData(c, data): the keys go into the map the context
\* already holds, or into a new map put into the context. Gives the request
\* (its map changed) and the context to use.
SetContextTemplateData(s, c, keys) ==
    IF c.tmpl
    THEN [s |-> [s EXCEPT !.tmpl.keys = @ \cup keys], c |-> c]
    ELSE [s |-> [s EXCEPT !.tmpl = [keys |-> keys, alerts |-> <<>>, managed |-> <<>>]],
          c |-> [c EXCEPT !.tmpl = TRUE]]

\* TemplateData.AddAlerts(alert)
AddAlerts(s, sev, msg) ==
    [s EXCEPT !.tmpl.alerts = Append(@, [sev |-> sev, msg |-> msg])]

\* BaseTemplateDataMiddleware
BaseTemplateDataServe(s, nx) ==
    IF IsStatic(s.path)
    THEN Serve(s, "BaseTemplateDataMiddleware", nx, s.ctx)
    ELSE LET t == SetContextTemplateData(s, s.ctx, {"ClientID", "Host", "Version", "BotRunning"})
         IN  Serve(t.s, "BaseTemplateDataMiddleware", nx, t.c)

BaseTemplateDataMiddleware(r) ==
    /\ req[r].pc = "BaseTemplateDataMiddleware"
    /\ \E nx \in Inner("BaseTemplateDataMiddleware", req[r].path) :
          req' = [req EXCEPT ![r] = BaseTemplateDataServe(@, nx)]
    /\ UNCHANGED <<mode, accepting, outstanding>>

\* SessionMiddleware: tokenOk is GetAuthToken's outcome, newOk discordgo.New's.
\* The deferred call of inner runs on every path with the ctx reached.
SessionCtx_NoRedisCheck(s, cookie, tokenOk, newOk) ==
    IF IsStatic(s.path) THEN s.ctx
    ELSE IF ~cookie THEN s.ctx
    ELSE IF ~tokenOk THEN s.ctx
    ELSE IF ~newOk THEN s.ctx
    ELSE [s.ctx EXCEPT !.session = Some(Token)]

SessionCtx(s, cookie, tokenOk, newOk) ==
    IF IsStatic(s.path) THEN s.ctx
    ELSE IF ~cookie THEN s.ctx
    ELSE IF ~s.ctx.redis THEN s.ctx
    ELSE IF ~tokenOk THEN s.ctx
    ELSE IF ~newOk THEN s.ctx
    ELSE [s.ctx EXCEPT !.session = Some(Token)]

\* the calls SessionMiddleware makes on the way: GetAuthToken, discordgo.New
SessionCalls(s, cookie, tokenOk, newOk) ==
    IF IsStatic(s.path) \/ ~cookie \/ ~s.ctx.redis THEN s
    ELSE IF ~tokenOk THEN Log(s, <<"call", "GetAuthToken", "err">>)
    ELSE Log(Log(s, <<"call", "GetAuthToken", "ok">>),
             <<"call", "discordgo.New", IF newOk THEN "ok" ELSE "err">>)

SessionServe(s, cookie, tokenOk, newOk, nx) ==
    Serve([SessionCalls(s, cookie, tokenOk, newOk) EXCEPT !.cookie = cookie],
          "SessionMiddleware", nx, SessionCtx(s, cookie, tokenOk, newOk))

SessionMiddleware(r) ==
    /\ req[r].pc = "SessionMiddleware"
    /\ \E cookie \in (IF Wide("session") THEN BOOLEAN ELSE {TRUE}), tokenOk \in BOOLEAN,
          newOk \in (IF Wide("session") THEN BOOLEAN ELSE {TRUE}),
          nx \in Inner("SessionMiddleware", req[r].path) :
          req' = [req EXCEPT ![r] = SessionServe(@, cookie, tokenOk, newOk, nx)]
    /\ UNCHANGED <<mode, accepting, outstanding>>

\* RequireSessionMiddleware
NoSessionURL == <<"/?">> \o ValuesEncode("error", <<"No", " ", "session">>)

\* the Origin compared byte by byte
OriginOk_Exact(origin) == origin = SchemeHTTPS \o Host

OriginOk(origin) == EqualFold(SchemeHTTPS \o Host, origin)

\* RequireSessionMiddleware with the session looked at after the Origin
RequireSessionServe_OriginFirst(s0, origin, nx) ==
    LET s == [s0 EXCEPT !.origin = origin]
    IN  IF origin # <<>> /\ ~OriginOk(origin)
        THEN Return(Redirect(s, <<"/?err=bad_origin">>))
        ELSE Serve(s, "RequireSessionMiddleware", nx, s.ctx)

RequireSessionServe(s0, origin, nx) ==
    LET s == [s0 EXCEPT !.origin = origin]
    IN  IF ~Has(s.ctx.session)
        THEN Return(Redirect(s, NoSessionURL))
        ELSE IF origin # <<>> /\ ~OriginOk(origin)
        THEN Return(Redirect(s, <<"/?err=bad_origin">>))
        ELSE Serve(s, "RequireSessionMiddleware", nx, s.ctx)

RequireSessionMiddleware(r) ==
    /\ req[r].pc = "RequireSessionMiddleware"
    /\ \E origin \in Origins, nx \in Inner("RequireSessionMiddleware", req[r].path) :
          req' = [req EXCEPT ![r] = RequireSessionServe(@, origin, nx)]
    /\ UNCHANGED <<mode, accepting, outstanding>>

\* HandleLogout(w, r): the session is dropped and the user sent to "/"
HandleLogout(s) == Redirect(Log(s, <<"call", "HandleLogout">>), <<"/">>)

\* The membership lists the platform (or the cache) can hold for a user.
PermissionManageServer == 32

UserGuildVals ==
    {[id |-> <<"1">>, name |-> "g1", owner |-> TRUE, perms |-> 0],
     [id |-> <<"1">>, name |-> "g1", owner |-> FALSE, perms |-> 0],
     [id |-> <<"2">>, name |-> "g2", owner |-> FALSE, perms |-> PermissionManageServer]}

SeqsUpTo(S, n) == UNION {[1..k -> S] : k \in 0..n}

GuildLists ==
    IF Wide("guild") THEN SeqsUpTo(UserGuildVals, MaxGuilds)
    ELSE {<<[id |-> <<"1">>, name |-> "g1", owner |-> TRUE, perms |-> 0]>>}

\* the managedGuilds loop of UserInfoMiddleware
ManagedGuilds(wrapped) ==
    SelectSeq(wrapped, LAMBDA g : g.owner \/ BitAnd(g.perms, PermissionManageServer) # 0)

\* One cache-first lookup of UserInfoMiddleware: GetCacheDataJson on key; on
\* an error the live call; on its success the write-back with ttl (0: none
\* given). how is "hit", "live" (miss, live call succeeds) or "fail".
CacheFirst_FetchOnHit(s, key, api, ttl, how, setOk) ==
    LET got == Log(s, <<"cache", "GET", key, IF how = "hit" THEN "hit" ELSE "miss">>)
    IN  IF how = "hit" THEN Log(got, <<"api", api, "ok">>)
        ELSE IF how = "fail" THEN HandleLogout(Log(got, <<"api", api, "err">>))
        ELSE Log(Log(got, <<"api", api, "ok">>),
                 <<"cache", "SET", key, ttl, IF setOk THEN "ok" ELSE "err">>)

CacheFirst(s, key, api, ttl, how, setOk) ==
    LET got == Log(s, <<"cache", "GET", key, IF how = "hit" THEN "hit" ELSE "miss">>)
    IN  IF how = "hit" THEN got
        ELSE IF how = "fail" THEN HandleLogout(Log(got, <<"api", api, "err">>))
        ELSE Log(Log(got, <<"api", api, "ok">>),
                 <<"cache", "SET", key, ttl, IF setOk THEN "ok" ELSE "err">>)

UserInfoServe_NoReturn(s, e, nx) ==
    IF ~Has(s.ctx.session) \/ ~s.ctx.redis
    THEN Serve(s, "UserInfoMiddleware", nx, s.ctx)
    ELSE LET tok == Val(s.ctx.session)
             s1 == CacheFirst(s, <<tok, ":user">>, "User", UserCacheTTL, e.user, e.setOk)
             s2 == CacheFirst(s1, <<tok, ":guilds">>, "UserGuilds", 0, e.guilds, e.setOk)
         IN  IF ~e.wrapOk THEN Return(Redirect(s2, <<"/?err=rediserr">>))
             ELSE LET t == SetContextTemplateData(s2, s2.ctx, {"User", "Guilds", "ManagedGuilds"})
                      s3 == [t.s EXCEPT !.tmpl.managed = ManagedGuilds(e.list)]
                      c == [t.c EXCEPT !.user = Some("u1"), !.guilds = Some(e.list)]
                  IN  Serve(s3, "UserInfoMiddleware", nx, c)

\* UserInfoMiddleware; e: how the user and the guilds lookups go, the write
\* backs, GetWrapped's outcome and the membership list read.
UserInfoServe(s, e, nx) ==
    IF ~Has(s.ctx.session) \/ ~s.ctx.redis
    THEN Serve(s, "UserInfoMiddleware", nx, s.ctx)
    ELSE LET tok == Val(s.ctx.session)
             s1 == CacheFirst(s, <<tok, ":user">>, "User", UserCacheTTL, e.user, e.setOk)
         IN  IF e.user = "fail" THEN Return(s1)
             ELSE LET s2 == CacheFirst(s1, <<tok, ":guilds">>, "UserGuilds", 0, e.guilds, e.setOk)
                  IN  IF e.guilds = "fail" THEN Return(s2)
                      ELSE IF ~e.wrapOk THEN Return(Redirect(s2, <<"/?err=rediserr">>))
                      ELSE LET t == SetContextTemplateData(s2, s2.ctx, {"User", "Guilds", "ManagedGuilds"})
                               s3 == [t.s EXCEPT !.tmpl.managed = ManagedGuilds(e.list)]
                               c == [t.c EXCEPT !.user = Some("u1"), !.guilds = Some(e.list)]
                           IN  Serve(s3, "UserInfoMiddleware", nx, c)

UserInfoEnv ==
    IF Wide("session")
    THEN [user : {"hit", "live", "fail"}, guilds : {"hit", "live", "fail"},
          setOk : BOOLEAN, wrapOk : BOOLEAN, list : GuildLists]
    ELSE [user : {"live", "fail"}, guilds : {"live"}, setOk : {TRUE}, wrapOk : {TRUE},
          list : GuildLists]

UserInfoMiddleware(r) ==
    /\ req[r].pc = "UserInfoMiddleware"
    /\ \E e \in UserInfoEnv, nx \in Inner("UserInfoMiddleware", req[r].path) :
          req' = [req EXCEPT ![r] = UserInfoServe(@, e, nx)]
    /\ UNCHANGED <<mode, accepting, outstanding>>

\* ------------------------------------------------------------ the guilds
\* Roles of a guild: id, permission bits, position.
RoleVals == [id : {1, 2}, perms : {1, 3}, pos : {0, 1}]

RoleLists ==
    IF Wide("roles") THEN SeqsUpTo(RoleVals, MaxRoles)
    ELSE {<<[id |-> 1, perms |-> 1, pos |-> 0]>>}

\* the bot's role ids in a guild (member.Roles, read by containment only)
BotRoleSets == IF Wide("roles") THEN SUBSET {1, 2} ELSE {{1}}

GuildNames == IF Wide("guild") THEN {"g1", "renamed"} ELSE {"g1"}

\* what common.GetGuild(client, id) can give: an error (None) or the guild
FullGuild(id, name, roles) ==
    [id |-> id, name |-> name, owner |-> "o1", region |-> "eu", roles |-> roles,
     channels |-> FALSE]

GetGuildResults(id) ==
    {None} \cup {Some(FullGuild(id, n, rl)) : n \in GuildNames, rl \in RoleLists}

\* &discordgo.Guild{ID: userGuild.ID, Name: userGuild.Name}
StubGuild(ug) ==
    [id |-> ug.id, name |-> ug.name, owner |-> "", region |-> "", roles |-> <<>>,
     channels |-> FALSE]

\* the guild object a context refers to (ContextKeyCurrentGuild)
CurGuild(s, c) == s.gobj[Val(c.curGuild)]

\* IsAdminCtx(c): the user owns or manages the guild of the membership entry
IsAdminCtx(c) ==
    /\ Has(c.userGuild)
    /\ \/ Val(c.userGuild).owner
       \/ BitAnd(Val(c.userGuild).perms, PermissionManageServer) # 0

\* common.GetGuild(client, id) called by `by` returned got
GetGuild(s, by, got) == Log(s, <<"api", "GetGuild", IF Has(got) THEN "ok" ELSE "err", by, got>>)

\* setFullGuild with the fetched guild left out of the context's object
SetFullGuild_StubOnly(s, c, guildID, got) ==
    LET called == GetGuild(s, "setFullGuild", got)
    IN  IF ~Has(got) THEN [s |-> called, c |-> c]
        ELSE LET obj == [called EXCEPT !.gobj = Append(@, StubGuild(Val(got)))]
             IN  [s |-> obj, c |-> [c EXCEPT !.curGuild = Some(Len(obj.gobj))]]

\* setFullGuild(ctx, guildID): got is what common.GetGuild returned
SetFullGuild(s, c, guildID, got) ==
    LET called == GetGuild(s, "setFullGuild", got)
    IN  IF ~Has(got) THEN [s |-> called, c |-> c]
        ELSE LET obj == [called EXCEPT !.gobj = Append(@, Val(got))]
                 t == SetContextTemplateData(obj, c, {"ActiveGuild"})
             IN  [s |-> t.s, c |-> [t.c EXCEPT !.curGuild = Some(Len(obj.gobj))]]

\* the scan of the membership list: the first entry with the id, or None
RECURSIVE FindUserGuild(_, _)
FindUserGuild(guilds, guildID) ==
    IF guilds = <<>> THEN None
    ELSE IF Head(guilds).id = guildID THEN Some(Head(guilds))
    ELSE FindUserGuild(Tail(guilds), guildID)

\* ActiveServerMW: the deferred call of inner gets the request r as last
\* assigned.
ActiveServerServe(s0, guildID, got, nx) ==
    LET s == [s0 EXCEPT !.server = guildID]
        h == "ActiveServerMW"
    IN  IF ~ParseIntOk(guildID) THEN Serve(s, h, nx, s.ctx)
        ELSE IF ~Has(s.ctx.guilds)
        THEN LET t == SetFullGuild(s, s.ctx, guildID, got) IN Serve(t.s, h, nx, t.c)
        ELSE LET userGuild == FindUserGuild(Val(s.ctx.guilds), guildID)
             IN  IF ~Has(userGuild)
                 THEN LET t == SetFullGuild(s, s.ctx, guildID, got) IN Serve(t.s, h, nx, t.c)
                 ELSE LET obj == [s EXCEPT !.gobj = Append(@, StubGuild(Val(userGuild)))]
                          c == [s.ctx EXCEPT !.userGuild = userGuild,
                                             !.curGuild = Some(Len(obj.gobj))]
                          t == SetContextTemplateData(obj, c, {"ActiveGuild", "IsAdmin"})
                      IN  Serve(t.s, h, nx, t.c)

ActiveServerMW(r) ==
    /\ req[r].pc = "ActiveServerMW"
    /\ \E guildID \in ServerParams, nx \in Inner("ActiveServerMW", req[r].path) :
          \E got \in GetGuildResults(guildID) :
             req' = [req EXCEPT ![r] = ActiveServerServe(@, guildID, got, nx)]
    /\ UNCHANGED <<mode, accepting, outstanding>>

\* RequireActiveServer
RequireActiveServerServe(s, nx) ==
    IF ~Has(s.ctx.curGuild)
    THEN Return(Redirect(s, <<"/?err=no_active_guild">>))
    ELSE Serve(s, "RequireActiveServer", nx, s.ctx)

RequireActiveServer(r) ==
    /\ req[r].pc = "RequireActiveServer"
    /\ \E nx \in Inner("RequireActiveServer", req[r].path) :
          req' = [req EXCEPT ![r] = RequireActiveServerServe(@, nx)]
    /\ UNCHANGED <<mode, accepting, outstanding>>

\* RequireServerAdminMiddleware
RequireServerAdminServe(s, nx) ==
    IF ~IsAdminCtx(s.ctx)
    THEN Return(Redirect(s, <<"/?err=noaccess">>))
    ELSE Serve(s, "RequireServerAdminMiddleware", nx, s.ctx)

RequireServerAdminMiddleware(r) ==
    /\ req[r].pc = "RequireServerAdminMiddleware"
    /\ \E nx \in Inner("RequireServerAdminMiddleware", req[r].path) :
          req' = [req EXCEPT ![r] = RequireServerAdminServe(@, nx)]
    /\ UNCHANGED <<mode, accepting, outstanding>>

\* RequireGuildChannelsMiddleware: the type assertion on a missing guild
\* panics; chOk is GetGuildChannels' outcome.
RequireGuildChannelsServe_FreshCtx(s, chOk, nx) ==
    LET h == "RequireGuildChannelsMiddleware"
    IN  IF ~Has(s.ctx.curGuild) THEN Panic(s, h)
        ELSE IF ~chOk THEN Return(Redirect(s, <<"/?err=retrievingchannels">>))
        ELSE Serve([s EXCEPT !.gobj[Val(s.ctx.curGuild)].channels = TRUE], h, nx,
                   [EmptyCtx EXCEPT !.channels = TRUE])

RequireGuildChannelsServe(s, chOk, nx) ==
    LET h == "RequireGuildChannelsMiddleware"
    IN  IF ~Has(s.ctx.curGuild) THEN Panic(s, h)
        ELSE IF ~chOk THEN Return(Redirect(s, <<"/?err=retrievingchannels">>))
        ELSE Serve([s EXCEPT !.gobj[Val(s.ctx.curGuild)].channels = TRUE], h, nx,
                   [s.ctx EXCEPT !.channels = TRUE])

RequireGuildChannelsMiddleware(r) ==
    /\ req[r].pc = "RequireGuildChannelsMiddleware"
    /\ \E chOk \in BOOLEAN, nx \in Inner("RequireGuildChannelsMiddleware", req[r].path) :
          req' = [req EXCEPT ![r] = RequireGuildChannelsServe(@, chOk, nx)]
    /\ UNCHANGED <<mode, accepting, outstanding>>

\* RequireFullGuildMW: region, owner id and roles are copied into the guild
\* object the context already refers to.
RequireFullGuildServe_AlwaysFetch(s, got, nx) ==
    LET h == "RequireFullGuildMW"
    IN  IF ~Has(s.ctx.curGuild) THEN Panic(s, h)
        ELSE LET called == GetGuild(s, h, got)
             IN  IF ~Has(got)
                 THEN Return(Redirect(called, <<"/?err=errretrievingguild">>))
                 ELSE Serve([called EXCEPT !.gobj[Val(s.ctx.curGuild)] =
                                [@ EXCEPT !.region = Val(got).region,
                                          !.owner = Val(got).owner,
                                          !.roles = Val(got).roles]],
                            h, nx, s.ctx)

RequireFullGuildServe(s, got, nx) ==
    LET h == "RequireFullGuildMW"
    IN  IF ~Has(s.ctx.curGuild) THEN Panic(s, h)
        ELSE IF CurGuild(s, s.ctx).owner # "" THEN Serve(s, h, nx, s.ctx)
        ELSE LET called == GetGuild(s, h, got)
             IN  IF ~Has(got)
                 THEN Return(Redirect(called, <<"/?err=errretrievingguild">>))
                 ELSE Serve([called EXCEPT !.gobj[Val(s.ctx.curGuild)] =
                                [@ EXCEPT !.region = Val(got).region,
                                          !.owner = Val(got).owner,
                                          !.roles = Val(got).roles]],
                            h, nx, s.ctx)

RequireFullGuildMW(r) ==
    /\ req[r].pc = "RequireFullGuildMW"
    /\ \E nx \in Inner("RequireFullGuildMW", req[r].path),
          got \in GetGuildResults(IF Has(req[r].ctx.curGuild) THEN CurGuild(req[r], req[r].ctx).id
                                  ELSE <<>>) :
          req' = [req EXCEPT ![r] = RequireFullGuildServe(@, got, nx)]
    /\ UNCHANGED <<mode, accepting, outstanding>>

\* the permissions added up
OrPerms_Add(combinedPerms, perms) == combinedPerms + perms

\* combinedPerms |= role.Permissions
OrPerms(combinedPerms, perms) == BitOr(combinedPerms, perms)

\* a role of equal position replaces the highest one
Outranks_OrEqual(role, highest) == ~Has(highest) \/ role.pos >= Val(highest).pos

\* highest == nil || role.Position > highest.Position
Outranks(role, highest) == ~Has(highest) \/ role.pos > Val(highest).pos

\* the loop over guildCast.Roles, from role i on; acc holds highest and
\* combinedPerms
RECURSIVE Aggregate(_, _, _, _)
Aggregate(roles, memberRoles, i, acc) ==
    IF i > Len(roles) THEN acc
    ELSE IF roles[i].id \notin memberRoles THEN Aggregate(roles, memberRoles, i + 1, acc)
    ELSE Aggregate(roles, memberRoles, i + 1,
                   [highest |-> IF Outranks(roles[i], acc.highest) THEN Some(roles[i])
                                ELSE acc.highest,
                    combinedPerms |-> OrPerms(acc.combinedPerms, roles[i].perms)])

RequireBotMemberServe_NoFallback(s, e, nx) ==
    LET h == "RequireBotMemberMW"
        s1 == Log(s, <<"botrest", "GetBotMember", IF e.sidecar THEN "ok" ELSE "err">>)
    IN  IF ~e.sidecar
        THEN Return(Redirect(s1, <<"/?err=errFailedRetrievingBotMember">>))
        ELSE LET member == [roles |-> e.roles]
                 s3 == [s1 EXCEPT !.member = Some(member)]
                 t == SetContextTemplateData(s3, s3.ctx, {"BotMember"})
                 kept == IF s3.ctx.tmpl THEN t.s ELSE s3
                 c == [t.c EXCEPT !.botMember = Some(member)]
             IN  IF ~Has(c.curGuild) THEN Serve(kept, h, nx, s.ctx)
                 ELSE IF Len(CurGuild(s, c).roles) < 1 THEN Serve(kept, h, nx, s.ctx)
                 ELSE LET acc == Aggregate(CurGuild(s, c).roles, member.roles, 1,
                                           [highest |-> None, combinedPerms |-> 0])
                          c2 == [c EXCEPT !.highest = Some(acc.highest),
                                          !.perms = Some(acc.combinedPerms)]
                          t2 == SetContextTemplateData(t.s, c2, {"HighestRole", "BotPermissions"})
                      IN  Serve(t2.s, h, nx, t2.c)

\* RequireBotMemberMW; e: the sidecar's and the fallback's outcome and the
\* role ids of the member found. The deferred call of inner passes the
\* request r, which holds the new context only once r is reassigned.
RequireBotMemberServe(s, e, nx) ==
    LET h == "RequireBotMemberMW"
        s1 == Log(s, <<"botrest", "GetBotMember", IF e.sidecar THEN "ok" ELSE "err">>)
        s2 == IF e.sidecar THEN s1
              ELSE Log(s1, <<"api", "GuildMember", IF e.fallback THEN "ok" ELSE "err">>)
    IN  IF ~e.sidecar /\ ~e.fallback
        THEN Return(Redirect(s2, <<"/?err=errFailedRetrievingBotMember">>))
        ELSE LET member == [roles |-> e.roles]
                 s3 == [s2 EXCEPT !.member = Some(member)]
                 t == SetContextTemplateData(s3, s3.ctx, {"BotMember"})
                 kept == IF s3.ctx.tmpl THEN t.s ELSE s3
                 c == [t.c EXCEPT !.botMember = Some(member)]
             IN  IF ~Has(c.curGuild) THEN Serve(kept, h, nx, s.ctx)
                 ELSE IF Len(CurGuild(s, c).roles) < 1 THEN Serve(kept, h, nx, s.ctx)
                 ELSE LET acc == Aggregate(CurGuild(s, c).roles, member.roles, 1,
                                           [highest |-> None, combinedPerms |-> 0])
                          c2 == [c EXCEPT !.highest = Some(acc.highest),
                                          !.perms = Some(acc.combinedPerms)]
                          t2 == SetContextTemplateData(t.s, c2, {"HighestRole", "BotPermissions"})
                      IN  Serve(t2.s, h, nx, t2.c)

BotMemberEnv ==
    [sidecar : BOOLEAN, fallback : IF Conc \/ Wide("roles") THEN {FALSE} ELSE BOOLEAN, roles : BotRoleSets]

RequireBotMemberMW(r) ==
    /\ req[r].pc = "RequireBotMemberMW"
    /\ \E e \in BotMemberEnv, nx \in Inner("RequireBotMemberMW", req[r].path) :
          req' = [req EXCEPT ![r] = RequireBotMemberServe(@, e, nx)]
    /\ UNCHANGED <<mode, accepting, outstanding>>

\* stringPerms: the names of the permission bits
StringPerms(perm) ==
    CASE perm = 1 -> "Create Instant Invite"
      [] perm = 2 -> "Kick Members"
      [] perm = 4 -> "Ban Members"
      [] OTHER -> ""

\* the loop of RequirePermMW over perms from i on: the names of the
\* permissions the bot has (want = TRUE) or misses, joined by ", "
RECURSIVE PermNames(_, _, _, _, _)
PermNames(perms, currentPerms, want, i, acc) ==
    IF i > Len(perms) THEN acc
    ELSE IF (BitAnd(currentPerms, perms[i]) # 0) # want
    THEN PermNames(perms, currentPerms, want, i + 1, acc)
    ELSE PermNames(perms, currentPerms, want, i + 1,
                   (IF acc # "" THEN acc \o ", " ELSE acc) \o StringPerms(perms[i]))

MissingPermsText(missing) ==
    "This plugin is missing the following permissions: " \o missing
       \o ", It may continue to work without the functionality that requires those permissions."

HasPermsText(has) == "The bot has the following permissions used by this plugin: " \o has

\* GetCreateTemplateData(ctx): the map of the context, made if there is none
GetCreateTemplateData(s, c) ==
    IF c.tmpl THEN [s |-> s, c |-> c]
    ELSE [s |-> [s EXCEPT !.tmpl = EmptyTmpl], c |-> [c EXCEPT !.tmpl = TRUE]]

\* RequirePermMW(perms...)
RequirePermServe(s, perms, nx) ==
    LET warned == IF Has(s.ctx.perms) THEN s
                  ELSE Log(s, <<"log", "Requires perms but no permsinterface available">>)
        currentPerms == IF Has(s.ctx.perms) THEN Val(s.ctx.perms) ELSE 0
        has == PermNames(perms, currentPerms, TRUE, 1, "")
        missing == PermNames(perms, currentPerms, FALSE, 1, "")
        t == GetCreateTemplateData(warned, s.ctx)
        s1 == IF missing # "" THEN AddAlerts(t.s, "error", MissingPermsText(missing)) ELSE t.s
        s2 == IF has # "" THEN AddAlerts(s1, "success", HasPermsText(has)) ELSE s1
    IN  Serve(s2, "RequirePermMW", nx, t.c)

\* the permissions a route asks RequirePermMW for
PermLists == IF Wide("roles") THEN {<<1>>, <<2, 1>>} ELSE {<<1>>}

RequirePermMW(r) ==
    /\ req[r].pc = "RequirePermMW"
    /\ \E perms \in PermLists, nx \in Inner("RequirePermMW", req[r].path) :
          req' = [req EXCEPT ![r] = RequirePermServe(@, perms, nx)]
    /\ UNCHANGED <<mode, accepting, outstanding>>

\* ------------------------------------------------- forms and controllers
\* What a handler can return as its error: nil, a *PublicError or another.
NoErr == [kind |-> "nil", msg |-> ""]
PublicErr(m) == [kind |-> "public", msg |-> m]
OtherErr(m) == [kind |-> "other", msg |-> m]

Errs ==
    IF Wide("form")
    THEN {NoErr, PublicErr("quota exceeded"), PublicErr("too many"), OtherErr("db down")}
    ELSE IF Conc \/ Wide("roles") THEN {NoErr}
    ELSE {NoErr, OtherErr("db down")}

\* The TemplateData a handler returns: nil, the map of the context, or a
\* map of its own.
DataVals == IF Wide("form") THEN {"nil", "ctx", "own"} ELSE {"nil"}

GenericError == "An error occured... Contact support."
SuccessSaved == "Sucessfully saved! :')"

\* data.AddAlerts(alert) on the map `data` names
AddAlertsTo(s, data, sev, msg) ==
    IF data = "own" THEN [s EXCEPT !.own = Append(@, [sev |-> sev, msg |-> msg])]
    ELSE AddAlerts(s, sev, msg)

\* checkControllerError showing the message of every error
CheckControllerError_ShowAll(s, guild, data, err) ==
    IF err.kind = "nil" THEN s
    ELSE LET alerted == AddAlertsTo(s, data, "error", err.msg)
             field == IF Has(guild) THEN Some(s.gobj[Val(guild)].id) ELSE None
         IN  Log(alerted, <<"log", "Web handler reported error", err.msg, field>>)

\* checkControllerError(guild, data, err)
CheckControllerError(s, guild, data, err) ==
    IF err.kind = "nil" THEN s
    ELSE LET alerted == IF err.kind = "public"
                        THEN AddAlertsTo(s, data, "error", err.msg)
                        ELSE AddAlertsTo(s, data, "error", GenericError)
             field == IF Has(guild) THEN Some(s.gobj[Val(guild)].id) ELSE None
         IN  Log(alerted, <<"log", "Web handler reported error", err.msg, field>>)

\* RenderHandler after inner returned `out`: the template is executed and,
\* unless that fails, the page written.
RenderServe(s, renderOk) ==
    IF ~renderOk THEN Return(Log(s, <<"log", "Failed executing template">>))
    ELSE Return(Write(s, StatusOK, <<>>, "html"))

\* ControllerHandler(f, templateName); e: what f returns and whether the
\* template executes.
ControllerServe(s, e) ==
    LET data == IF e.data = "nil" \/ (e.data = "ctx" /\ ~s.ctx.tmpl)
                THEN (IF s.ctx.tmpl THEN "ctx" ELSE "own")
                ELSE e.data
    IN  RenderServe(CheckControllerError(Log(s, <<"call", "f", e.err>>), s.ctx.curGuild, data, e.err),
                    e.renderOk)

ControllerEnv ==
    [data : DataVals, err : Errs, renderOk : IF Wide("form") THEN BOOLEAN ELSE {TRUE}]

ControllerHandler(r) ==
    /\ req[r].pc = "ControllerHandler"
    /\ \E e \in ControllerEnv :
          req' = [req EXCEPT ![r] = ControllerServe(@, e)]
    /\ UNCHANGED <<mode, accepting, outstanding>>

\* What the inner function of APIHandler returns, an interface{}: nil, a
\* value that is no error, an error, or a nil *PublicError.
ApiNil == [t |-> "nil", v |-> "", err |-> NoErr]
ApiValue(v) == [t |-> "value", v |-> v, err |-> NoErr]
ApiError(err) == [t |-> "error", v |-> "", err |-> err]
ApiNilPublic == [t |-> "nilPublic", v |-> "", err |-> NoErr]

ApiResults ==
    IF Wide("form")
    THEN {ApiNil, ApiValue("[1,2]"), ApiValue("{\"n\":3}"), ApiNilPublic,
          ApiError(PublicErr("quota exceeded")), ApiError(PublicErr("")),
          ApiError(OtherErr("db down"))}
    ELSE {ApiValue("[1,2]")}

\* the text json.NewEncoder(w).Encode(out) writes: a map with its keys
\* sorted, a value as its JSON text, an error value of a type without
\* exported fields (errors.New) as the empty object, and a newline
OkTrue == [t |-> "map", v |-> "{\"ok\":true}", err |-> NoErr]
OkFalse(msg) ==
    [t |-> "map", v |-> "{\"error\":\"" \o msg \o "\",\"ok\":false}", err |-> NoErr]

Encode(out) ==
    (IF out.t = "error" THEN "{}" ELSE out.v) \o "\n"

\* APIHandler(inner); out is what inner returned. The type assertion
\* out.(error) holds for no nil interface, so cast == nil is never true; a
\* nil *PublicError is dereferenced.
APIServe_PublicKeepsStatus(s, out) ==
    IF out.t = "nilPublic" THEN Panic(s, "APIHandler")
    ELSE IF out.t = "error"
    THEN LET logged == Log(s, <<"log", "API Error", out.err.msg>>)
         IN  IF out.err.kind = "public"
             THEN Return(Write(logged, StatusOK, <<>>, Encode(OkFalse(out.err.msg))))
             ELSE Return(Write(logged, StatusInternalServerError, <<>>, Encode(out)))
    ELSE IF out.t = "nil" THEN Return(s)
    ELSE Return(Write(s, StatusOK, <<>>, Encode(out)))

APIServe(s, out) ==
    LET isError == out.t \in {"error", "nilPublic"}
    IN  IF out.t = "nilPublic" THEN Panic(s, "APIHandler")
        ELSE IF isError
        THEN LET sent == IF out.err.kind = "public" THEN OkFalse(out.err.msg) ELSE out
                 logged == Log(s, <<"log", "API Error", out.err.msg>>)
             IN  Return(Write(logged, StatusInternalServerError, <<>>, Encode(sent)))
        ELSE IF out.t = "nil" THEN Return(s)
        ELSE Return(Write(s, StatusOK, <<>>, Encode(out)))

APIHandler(r) ==
    /\ req[r].pc = "APIHandler"
    /\ \E out \in ApiResults :
          req' = [req EXCEPT ![r] = APIServe(Log(@, <<"call", "inner", out>>), out)]
    /\ UNCHANGED <<mode, accepting, outstanding>>

\* ValidateForm(guild, tmpl, decoded): a failing validation reports an alert
ValidateForm(s, valid) ==
    IF valid THEN Log(s, <<"validate", "ok">>)
    ELSE AddAlerts(Log(s, <<"validate", "failed">>), "error", "invalid field")

\* FormParserMW validating whatever the decoding gave
FormParserServe_ValidateAnyway(s, e, nx) ==
    LET h == "FormParserMW"
    IN  IF ~e.parseOk THEN Panic(s, h)
        ELSE LET s1 == IF ~e.decodeOk
                      THEN AddAlerts(Log(s, <<"decode", "err">>), "error", "Failed parsing form")
                      ELSE Log(s, <<"decode", "ok">>)
             IN  Serve(ValidateForm(s1, e.valid), h, nx,
                       [s.ctx EXCEPT !.form = Some("decoded"), !.formOk = Some(e.valid)])

\* FormParserMW; e: the outcome of parsing the body, of decoding it into
\* the form and of validating the form.
FormParserServe(s, e, nx) ==
    LET h == "FormParserMW"
    IN  IF ~e.parseOk THEN Panic(s, h)
        ELSE LET s1 == IF ~e.decodeOk
                      THEN AddAlerts(Log(s, <<"decode", "err">>), "error", "Failed parsing form")
                      ELSE ValidateForm(Log(s, <<"decode", "ok">>), e.valid)
                 ok == IF ~e.decodeOk THEN FALSE ELSE e.valid
             IN  Serve(s1, h, nx, [s.ctx EXCEPT !.form = Some("decoded"), !.formOk = Some(ok)])

FormEnv ==
    IF Wide("form") THEN [parseOk : BOOLEAN, decodeOk : BOOLEAN, valid : BOOLEAN]
    ELSE [parseOk : IF Wide("roles") THEN {TRUE} ELSE BOOLEAN, decodeOk : {TRUE}, valid : {TRUE}]

FormParserMW(r) ==
    /\ req[r].pc = "FormParserMW"
    /\ \E e \in FormEnv, nx \in Inner("FormParserMW", req[r].path) :
          req' = [req EXCEPT ![r] = FormParserServe(@, e, nx)]
    /\ UNCHANGED <<mode, accepting, outstanding>>

\* defer extraHandler.ServeHTTP(w, r), when an extraHandler is given
DeferExtra(s, extra) ==
    IF extra THEN [Log(s, <<"defer", "extraHandler">>) EXCEPT !.stack = Append(@, "extraHandler")]
    ELSE s

\* common.AddCPLogEntry(user, guildID, msg): ok is whether the entry could
\* be written
AddCPLogEntry(s, entry, ok) ==
    IF ok THEN [s EXCEPT !.audit = Append(@, entry)] ELSE s

\* CheckErr(templateData, err, msg, logger): an error is shown as an alert
CheckErr(s, err, msg) ==
    IF err.kind = "nil" THEN s ELSE AddAlerts(s, "error", msg)

\* SimpleConfigSaverHandler saving without a look at the ok flag
SimpleConfigSaverServe_NoOkCheck(s0, e) ==
    LET s == DeferExtra(s0, e.extra)
        saved == CheckErr(Log(s, <<"call", "Save", e.err>>), e.err, "Failed saving config")
        entry == [user |-> s.ctx.user, guild |-> CurGuild(s, s.ctx).id, msg |-> "Updated config"]
    IN  IF e.err.kind # "nil" THEN Return(saved)
        ELSE Return(AddCPLogEntry(Log(AddAlerts(saved, "success", SuccessSaved),
                                      <<"call", "AddCPLogEntry", entry>>),
                                  entry, e.auditOk))

\* the handler SimpleConfigSaverHandler(t, extraHandler) gives FormParserMW;
\* e: whether extraHandler is given, what form.Save returns and whether
\* the audit entry can be written.
SimpleConfigSaverServe(s0, e) ==
    LET s == DeferExtra(s0, e.extra)
    IN  IF ~Val(s.ctx.formOk) THEN Return(s)
        ELSE LET saved == CheckErr(Log(s, <<"call", "Save", e.err>>), e.err,
                                   "Failed saving config")
             IN  IF e.err.kind # "nil" THEN Return(saved)
                 ELSE LET alerted == AddAlerts(saved, "success", SuccessSaved)
                          entry == [user |-> s.ctx.user, guild |-> CurGuild(s, s.ctx).id,
                                    msg |-> "Updated config"]
                      IN  IF ~Has(s.ctx.user) THEN Return(alerted)
                          ELSE Return(AddCPLogEntry(
                                         Log(alerted, <<"call", "AddCPLogEntry", entry>>),
                                         entry, e.auditOk))

SaverEnv ==
    IF Wide("form") THEN [extra : BOOLEAN, err : {NoErr, OtherErr("db down")}, auditOk : BOOLEAN]
    ELSE [extra : {TRUE}, err : {NoErr}, auditOk : {TRUE}]

SimpleConfigSaverHandler(r) ==
    /\ req[r].pc = "SimpleConfigSaverHandler"
    /\ \E e \in SaverEnv :
          req' = [req EXCEPT ![r] = SimpleConfigSaverServe(@, e)]
    /\ UNCHANGED <<mode, accepting, outstanding>>

\* ControllerPostHandler with the success alert and the audit entry on
\* every outcome of mainHandler
ControllerPostServe_AlertAnyway(s0, e) ==
    LET s == DeferExtra(s0, e.extra)
    IN  IF ~Val(s.ctx.formOk) THEN Return(s)
        ELSE LET data == IF e.data = "nil" THEN "ctx" ELSE e.data
                 checked == CheckControllerError(Log(s, <<"call", "mainHandler", e.err>>),
                                                 s.ctx.curGuild, data, e.err)
                 entry == [user |-> s.ctx.user, guild |-> CurGuild(s, s.ctx).id,
                           msg |-> "logMsg"]
             IN  Return([Log(AddAlertsTo(checked, data, "success", SuccessSaved),
                             <<"go", "AddCPLogEntry", entry>>)
                            EXCEPT !.pending = Append(@, entry)])

\* the handler ControllerPostHandler(mainHandler, extraHandler, formData,
\* logMsg) gives FormParserMW; e: whether extraHandler is given and what
\* mainHandler returns. The audit entry is written by a goroutine.
ControllerPostServe(s0, e) ==
    LET s == DeferExtra(s0, e.extra)
    IN  IF ~Val(s.ctx.formOk) THEN Return(s)
        ELSE LET data == IF e.data = "nil" THEN "ctx" ELSE e.data
                 checked == CheckControllerError(Log(s, <<"call", "mainHandler", e.err>>),
                                                 s.ctx.curGuild, data, e.err)
             IN  IF e.err.kind # "nil" THEN Return(checked)
                 ELSE LET alerted == AddAlertsTo(checked, data, "success", SuccessSaved)
                          entry == [user |-> s.ctx.user, guild |-> CurGuild(s, s.ctx).id,
                                    msg |-> "logMsg"]
                      IN  IF ~Has(s.ctx.user) THEN Return(alerted)
                          ELSE Return([Log(alerted, <<"go", "AddCPLogEntry", entry>>)
                                          EXCEPT !.pending = Append(@, entry)])

PostEnv ==
    IF Wide("form") THEN [extra : BOOLEAN, data : DataVals, err : Errs]
    ELSE [extra : {TRUE}, data : DataVals, err : {NoErr}]

ControllerPostHandler(r) ==
    /\ req[r].pc = "ControllerPostHandler"
    /\ \E e \in PostEnv :
          req' = [req EXCEPT ![r] = ControllerPostServe(@, e)]
    /\ UNCHANGED <<mode, accepting, outstanding>>

\* the goroutine `go common.AddCPLogEntry(user, g.ID, logMsg)` runs
AuditGoroutine(r) ==
    /\ req[r].pending # <<>>
    /\ \E ok \in (IF Wide("form") THEN BOOLEAN ELSE {TRUE}) :
          req' = [req EXCEPT ![r] = AddCPLogEntry([@ EXCEPT !.pending = Tail(@)],
                                                  Head(req[r].pending), ok)]
    /\ UNCHANGED <<mode, accepting, outstanding>>

\* The static file server at the end of the chain of a /static/ path
FileServer(r) ==
    /\ req[r].pc = "FileServer"
    /\ req' = [req EXCEPT ![r] = Return(Write(@, StatusOK, <<>>, "file"))]
    /\ UNCHANGED <<mode, accepting, outstanding>>

\* The call chain of the request returns (or a panic unwinds it): every
\* deferred call on the stack runs; RedisMiddleware's is RedisPool.Put.
RunDeferredCall(s, h) ==
    IF h = "RedisMiddleware" THEN Log(s, <<"pool", "Put">>)
    ELSE Log(s, <<"call", h>>)

\* RedisPool.Put called after inner.ServeHTTP instead of deferred: a panic
\* passes it by
RECURSIVE RunDeferred_PutAfterInner(_)
RunDeferred_PutAfterInner(s) ==
    IF s.stack = <<>> THEN [s EXCEPT !.pc = "done"]
    ELSE LET top == s.stack[Len(s.stack)]
             rest == [s EXCEPT !.stack = SubSeq(@, 1, Len(@) - 1)]
         IN  RunDeferred_PutAfterInner(
                IF top = "RedisMiddleware" /\ Did(s, "panic", "FormParserMW") > 0 THEN rest
                ELSE RunDeferredCall(rest, top))

RECURSIVE RunDeferred(_)
RunDeferred(s) ==
    IF s.stack = <<>> THEN [s EXCEPT !.pc = "done"]
    ELSE LET top == s.stack[Len(s.stack)]
             rest == [s EXCEPT !.stack = SubSeq(@, 1, Len(@) - 1)]
         IN  RunDeferred(RunDeferredCall(rest, top))

Unwind(r) ==
    /\ req[r].pc = "unwind"
    /\ LET s == RunDeferred(req[r])
       IN  /\ req' = [req EXCEPT ![r] = s]
           /\ outstanding' = outstanding - Did(s, "pool", "Put")
    /\ UNCHANGED <<mode, accepting>>

Next ==
    \/ Shutdown
    \/ \E r \in Reqs :
          \/ Arrive(r)
          \/ MiscMiddleware(r)
          \/ RedisMiddleware(r)
          \/ BaseTemplateDataMiddleware(r)
          \/ SessionMiddleware(r)
          \/ RequireSessionMiddleware(r)
          \/ UserInfoMiddleware(r)
          \/ ActiveServerMW(r)
          \/ RequireActiveServer(r)
          \/ RequireServerAdminMiddleware(r)
          \/ RequireGuildChannelsMiddleware(r)
          \/ RequireFullGuildMW(r)
          \/ RequireBotMemberMW(r)
          \/ RequirePermMW(r)
          \/ ControllerHandler(r)
          \/ APIHandler(r)
          \/ FormParserMW(r)
          \/ SimpleConfigSaverHandler(r)
          \/ ControllerPostHandler(r)
          \/ AuditGoroutine(r)
          \/ FileServer(r)
          \/ Unwind(r)

InitMode(m) ==
    /\ mode = m
    /\ accepting = TRUE
    /\ outstanding = 0
    /\ req = [r \in Reqs |-> IdleReq]

Spec == Init /\ [][Next]_vars

SpecGuild == InitMode("guild") /\ [][Next]_vars

SpecRoles == InitMode("roles") /\ [][Next]_vars

SpecForm == InitMode("form") /\ [][Next]_vars

SpecConc == InitMode("conc") /\ [][Next]_vars

\* ------------------------------------------------------------------ claims
\* handler h was called for the request and has called inner or returned
Ran(s, h) == Called(s, h) = 1 /\ s.pc # h

InFlight(r) == req[r].pc \notin {"idle", "done"}

Gets(r) == Did(req[r], "pool", "Get")

Puts(r) == Did(req[r], "pool", "Put")

Holding(r) == Gets(r) = 1 /\ Puts(r) = 0

\* C1: a client RedisMiddleware took from the pool is put back exactly once,
\* when the request ends and on every exit path (return, redirect, logout,
\* panic); a request on a /static/ path or whose Get failed never takes or
\* puts one; the clients outstanding are those of the requests in flight,
\* so none is outstanding when no request is in flight.
C1_ClientPutBackOnce ==
    /\ \A r \in Reqs :
          LET gets == Gets(r)
              puts == Puts(r)
          IN  /\ puts <= gets /\ gets <= 1
              /\ req[r].pc = "done" => puts = gets
              /\ InFlight(r) => puts = 0
              /\ req[r].ctx.redis => gets = 1
              /\ (IsStatic(req[r].path) \/ Did(req[r], "pool", "GetFailed") > 0)
                    => gets = 0 /\ puts = 0 /\ ~req[r].ctx.redis
    /\ outstanding = Cardinality({r \in Reqs : Holding(r)})
    /\ (\A r \in Reqs : ~InFlight(r)) => outstanding = 0

C1_Witness ==
    \E r1, r2 \in Reqs :
       /\ req[r1].pc = "done" /\ Did(req[r1], "panic", "FormParserMW") = 1
       /\ Gets(r1) = 1 /\ Puts(r1) = 1
       /\ InFlight(r2) /\ Holding(r2) /\ outstanding = 1

\* the indices of the GetGuild calls made by `by`
Fetches(s, by) ==
    {i \in 1..Len(s.trace) :
        s.trace[i][1] = "api" /\ s.trace[i][2] = "GetGuild" /\ s.trace[i][4] = by}

\* ActiveServerMW has run for the request
ActiveServerRan(s) == Calls(s, "ActiveServerMW") = 1

\* the path id is in no entry of the membership list of the context, or
\* the context has no membership list
NotMember(s) == ~Has(s.ctx.guilds) \/ ~Has(FindUserGuild(Val(s.ctx.guilds), s.server))

\* the active guild of the request has owner id, region and roles
Populated(s) == Has(s.ctx.curGuild) /\ CurGuild(s, s.ctx).owner # ""

SameButChannels(g, fetched) == [g EXCEPT !.channels = FALSE] = fetched

C2_FetchedWhenNotMember ==
    \A r \in Reqs :
       LET s == req[r]
           f == Fetches(s, "setFullGuild")
       IN  ActiveServerRan(s) /\ NotMember(s)
             => IF ~ParseIntOk(s.server) THEN f = {} /\ ~Has(s.ctx.curGuild)
                ELSE /\ Cardinality(f) = 1
                     /\ \A i \in f :
                          IF s.trace[i][3] = "ok"
                          THEN /\ Populated(s)
                               /\ SameButChannels(CurGuild(s, s.ctx), Val(s.trace[i][5]))
                          ELSE ~Has(s.ctx.curGuild)

\* C2 (amended), second part: a step of the request never replaces an
\* active guild that has owner id, region and roles, nor resets them.
C2_StepKeepsFull ==
    \A r \in Reqs :
       Populated(req[r])
          => /\ req'[r].ctx.curGuild = req[r].ctx.curGuild
             /\ [CurGuild(req'[r], req'[r].ctx) EXCEPT !.channels = FALSE]
                  = [CurGuild(req[r], req[r].ctx) EXCEPT !.channels = FALSE]

BotMemberFound(s) == Ran(s, "RequireBotMemberMW") /\ Has(s.member)

\* the roles of the active guild, <<>> without an active guild
GuildRoles(s) == IF Has(s.ctx.curGuild) THEN CurGuild(s, s.ctx).roles ELSE <<>>

\* the indices of the guild's roles whose id is among the bot's role ids
Matching(s) == {i \in 1..Len(GuildRoles(s)) : GuildRoles(s)[i].id \in Val(s.member).roles}

PermBits == 0..2

BitSet(n, b) == (n \div 2^b) % 2 = 1

RECURSIVE BitsValue(_, _)
BitsValue(set, b) ==
    IF b \notin PermBits THEN 0
    ELSE (IF b \in set THEN 2^b ELSE 0) + BitsValue(set, b + 1)

\* the number whose bit b is set iff a matching role has bit b set
OrOfMatching(s) ==
    BitsValue({b \in PermBits : \E i \in Matching(s) : BitSet(GuildRoles(s)[i].perms, b)}, 0)

\* C3: once RequireBotMemberMW has the bot's member: with a non-empty role
\* list of the active guild the context holds the bitwise OR of the
\* permissions of exactly the roles whose id is among the bot's (0 when
\* none is); with an empty role list or without an active guild the
\* context holds neither the permissions nor the highest role.
C3_PermsAreOrOfMatching ==
    \A r \in Reqs :
       LET s == req[r]
       IN  /\ BotMemberFound(s) /\ GuildRoles(s) # <<>>
                => /\ s.ctx.perms = Some(OrOfMatching(s))
                   /\ Has(s.ctx.highest)
                   /\ {"HighestRole", "BotPermissions"} \subseteq s.tmpl.keys
           /\ BotMemberFound(s) /\ GuildRoles(s) = <<>>
                => /\ ~Has(s.ctx.perms) /\ ~Has(s.ctx.highest)
                   /\ {"HighestRole", "BotPermissions"} \cap s.tmpl.keys = {}
           /\ ~BotMemberFound(s) => ~Has(s.ctx.perms) /\ ~Has(s.ctx.highest)

\* C3 witness: two roles of the bot share a permission bit, and the OR is
\* in the context of the handler behind RequireBotMemberMW.
C3_Witness ==
    \E r \in Reqs :
       /\ BotMemberFound(req[r]) /\ Cardinality(Matching(req[r])) = 2
       /\ \E i, j \in Matching(req[r]) :
             GuildRoles(req[r])[i].perms = 1 /\ GuildRoles(req[r])[j].perms = 3
       /\ req[r].ctx.perms = Some(3)

\* the first of the matching roles that has the greatest position of them
FirstOfMaxPosition(s) ==
    LET R == GuildRoles(s)
        top == {i \in Matching(s) : \A j \in Matching(s) : R[j].pos <= R[i].pos}
    IN  IF Matching(s) = {} THEN None
        ELSE Some(R[CHOOSE i \in top : \A j \in top : i <= j])

\* C4: the highest role RequireBotMemberMW stores is the first role, in the
\* order of the guild's role list, among the roles of the bot that have the
\* greatest position of them (an equal position later in the list does not
\* replace it); nil when the bot has none of the guild's roles.
C4_HighestIsFirstOfMax ==
    \A r \in Reqs :
       BotMemberFound(req[r]) /\ GuildRoles(req[r]) # <<>>
          => req[r].ctx.highest = Some(FirstOfMaxPosition(req[r]))

\* C4 witness: two different roles of the bot have the same position and
\* the first of them is the highest role stored.
C4_Witness ==
    \E r \in Reqs :
       LET R == GuildRoles(req[r])
       IN  /\ BotMemberFound(req[r]) /\ Len(R) >= 2
           /\ Matching(req[r]) = 1..Len(R)
           /\ R[1].pos = R[2].pos /\ R[1] # R[2]
           /\ req[r].ctx.highest = Some(Some(R[1]))

\* the response of the request is exactly one 307 redirect to loc
RedirectedTo(s, loc) ==
    s.resp.writes = <<[code |-> 307, loc |-> loc, body |-> ""]>>

BadOriginURL == <<"/?err=bad_origin">>

SentBadOrigin(s) == \E i \in 1..Len(s.resp.writes) : s.resp.writes[i].loc = BadOriginURL

\* the Origin header of the request is https://<host>, any letter case
FoldsToHost(origin) ==
    origin \in {OriginSame, OriginUpper}

\* C5 as stated: a request whose Origin header differs from https://<host>
\* is always redirected to /?err=bad_origin and never reaches the inner
\* handler; a request without Origin is never answered with bad_origin.
C5_EveryOtherOriginRedirects ==
    \A r \in Reqs :
       Ran(req[r], "RequireSessionMiddleware")
          => /\ (req[r].origin # <<>> /\ req[r].origin # OriginSame)
                   => /\ RedirectedTo(req[r], BadOriginURL)
                      /\ Calls(req[r], "RequireSessionMiddleware") = 0
             /\ req[r].origin = <<>> => ~SentBadOrigin(req[r])

\* C5 (amended): RequireSessionMiddleware, for a request with a session in
\* its context: an Origin header that is not https://<host> compared without
\* regard to letter case is answered with the 307 redirect to
\* /?err=bad_origin and inner is not called; an Origin that is https://<host>
\* in any letter case passes to inner. A request without a session is
\* answered with the no-session redirect whatever its Origin, and a request
\* without Origin is never answered with bad_origin.
C5_OriginCheck ==
    \A r \in Reqs :
       LET s == req[r]
       IN  Ran(s, "RequireSessionMiddleware")
             => /\ (Has(s.ctx.session) /\ s.origin # <<>> /\ ~FoldsToHost(s.origin))
                      => /\ RedirectedTo(s, BadOriginURL)
                         /\ Calls(s, "RequireSessionMiddleware") = 0
                /\ (Has(s.ctx.session) /\ FoldsToHost(s.origin))
                      => /\ Calls(s, "RequireSessionMiddleware") = 1
                         /\ ~SentBadOrigin(s)
                /\ ~Has(s.ctx.session) => ~SentBadOrigin(s)
                /\ s.origin = <<>> => ~SentBadOrigin(s)

\* C5 witness: a request with a session and the Origin of another host was
\* redirected with bad_origin.
C5_Witness ==
    \E r \in Reqs :
       /\ req[r].pc = "done" /\ Has(req[r].ctx.session)
       /\ req[r].origin = OriginAttacker
       /\ RedirectedTo(req[r], BadOriginURL)

\* C6: a request that reaches RequireSessionMiddleware without a session in
\* its context is answered with the 307 redirect to /?error=No+session, and
\* neither inner nor any handler behind it is called.
C6_NoSessionRedirects ==
    \A r \in Reqs :
       LET s == req[r]
       IN  Ran(s, "RequireSessionMiddleware") /\ ~Has(s.ctx.session)
             => /\ RedirectedTo(s, <<"/?", "error", "=", "No", "+", "session">>)
                /\ Calls(s, "RequireSessionMiddleware") = 0
                /\ \A i \in 1..Len(s.trace) :
                      s.trace[i][1] = "serve"
                         => s.trace[i][2] \in {"MiscMiddleware", "RedisMiddleware",
                               "BaseTemplateDataMiddleware", "SessionMiddleware",
                               "UserInfoMiddleware"}
                /\ Called(s, "ActiveServerMW") = 0

\* C6 witness: the cookie was sent and a cache client was there, but the
\* token lookup or the construction of the handle failed; the request ended
\* with the no-session redirect.
C6_Witness ==
    \E r \in Reqs :
       /\ req[r].pc = "done" /\ Ran(req[r], "RequireSessionMiddleware")
       /\ req[r].cookie /\ req[r].ctx.redis /\ ~Has(req[r].ctx.session)
       /\ RedirectedTo(req[r], <<"/?", "error", "=", "No", "+", "session">>)

\* the texts of the alerts RequirePermMW shows on the routes it is part of
PermAlertTexts ==
    LET names == {StringPerms(1), StringPerms(2),
                  StringPerms(2) \o ", " \o StringPerms(1)}
    IN  {HasPermsText(n) : n \in names} \cup {MissingPermsText(n) : n \in names}

\* the alerts of the request, in the map of the context and in a map a
\* handler returned, but for those of RequirePermMW
Alerts(s) == SelectSeq(s.tmpl.alerts \o s.own, LAMBDA a : a.msg \notin PermAlertTexts)

CountAlerts(s, sev) ==
    Cardinality({i \in 1..Len(Alerts(s)) : Alerts(s)[i].sev = sev})

CountAlertText(s, sev, msg) ==
    Cardinality({i \in 1..Len(Alerts(s)) : Alerts(s)[i] = [sev |-> sev, msg |-> msg]})

Validations(s) == Did(s, "validate", "ok") + Did(s, "validate", "failed")

\* C7: FormParserMW, when the body parses, calls inner exactly once with the
\* decoded value and the ok flag in the context; a failed decoding gives ok
\* false, the alert "Failed parsing form" and no validation; a decoding
\* that succeeds gives the outcome of the validation as ok.
C7_FormOkFlag ==
    \A r \in Reqs :
       LET s == req[r]
       IN  Ran(s, "FormParserMW") /\ Did(s, "panic", "FormParserMW") = 0
             => /\ Calls(s, "FormParserMW") = 1
                /\ Has(s.ctx.form) /\ Has(s.ctx.formOk)
                /\ Did(s, "decode", "err") + Did(s, "decode", "ok") = 1
                /\ Did(s, "decode", "err") = 1
                      => /\ s.ctx.formOk = Some(FALSE)
                         /\ CountAlertText(s, "error", "Failed parsing form") >= 1
                         /\ Validations(s) = 0
                /\ Did(s, "decode", "ok") = 1
                      => /\ Validations(s) = 1
                         /\ Did(s, "validate", "failed") = 1 => s.ctx.formOk = Some(FALSE)
                         /\ Did(s, "validate", "ok") = 1 => s.ctx.formOk = Some(TRUE)

\* C7 witness: the decoding failed and inner runs with ok false
C7_Witness ==
    \E r \in Reqs :
       /\ req[r].pc \in {"SimpleConfigSaverHandler", "ControllerPostHandler"}
       /\ Did(req[r], "decode", "err") = 1
       /\ req[r].ctx.formOk = Some(FALSE)
       /\ CountAlertText(req[r], "error", "Failed parsing form") = 1

\* one of the two handlers behind FormParserMW has run for the request
PostRan(s) == Ran(s, "SimpleConfigSaverHandler") \/ Ran(s, "ControllerPostHandler")

\* the calls of form.Save and of mainHandler
PersistCalls(s) ==
    {i \in 1..Len(s.trace) :
        s.trace[i][1] = "call" /\ s.trace[i][2] \in {"Save", "mainHandler"}}

\* the calls of common.AddCPLogEntry, direct or as a goroutine
AuditCalls(s) ==
    {i \in 1..Len(s.trace) :
        s.trace[i][1] \in {"call", "go"} /\ s.trace[i][2] = "AddCPLogEntry"}

\* the extraHandler of the request, if one was given, runs once when the
\* handler returns
ExtraRunsOnce(s) ==
    /\ Did(s, "defer", "extraHandler") <= 1
    /\ Did(s, "call", "extraHandler")
          = IF s.pc = "done" THEN Did(s, "defer", "extraHandler") ELSE 0

\* C8: with the ok flag false, SimpleConfigSaverHandler and
\* ControllerPostHandler call neither form.Save nor mainHandler, add no
\* success alert and write no audit entry; an extraHandler given still runs
\* exactly once.
C8_NotOkSkipsPersistence ==
    \A r \in Reqs :
       LET s == req[r]
       IN  PostRan(s) /\ s.ctx.formOk = Some(FALSE)
             => /\ PersistCalls(s) = {}
                /\ CountAlerts(s, "success") = 0
                /\ AuditCalls(s) = {} /\ s.audit = <<>> /\ s.pending = <<>>
                /\ ExtraRunsOnce(s)

\* C8 witness: the validation failed, SimpleConfigSaverHandler returned and
\* its extraHandler has run.
C8_Witness ==
    \E r \in Reqs :
       /\ req[r].pc = "done" /\ Ran(req[r], "SimpleConfigSaverHandler")
       /\ Did(req[r], "validate", "failed") = 1
       /\ Did(req[r], "call", "extraHandler") = 1

\* the request leaves out the audit log
NoAudit(s) == [s EXCEPT !.audit = <<>>]

\* C9, the states: with the ok flag true the saving operation is called
\* once; if it returns nil the success alert is added once and
\* AddCPLogEntry is called once, for the user and the active guild of the
\* context; if it returns an error there is no success alert and no audit
\* entry. Whether the audit entry can be written changes nothing else of
\* what SimpleConfigSaverHandler does.
C9_SuccessAlertAndAudit ==
    \A r \in Reqs :
       LET s == req[r]
       IN  /\ PostRan(s) /\ s.ctx.formOk = Some(TRUE)
                => /\ Cardinality(PersistCalls(s)) = 1
                   /\ \A i \in PersistCalls(s) :
                         IF s.trace[i][3].kind = "nil"
                         THEN /\ CountAlertText(s, "success", "Sucessfully saved! :')") = 1
                              /\ CountAlerts(s, "success") = 1
                              /\ Has(s.ctx.user) => Cardinality(AuditCalls(s)) = 1
                              /\ \A j \in AuditCalls(s) :
                                    /\ s.trace[j][3].user = s.ctx.user
                                    /\ s.trace[j][3].guild = CurGuild(s, s.ctx).id
                              /\ Len(s.audit) + Len(s.pending) <= 1
                              /\ \A j \in 1..Len(s.audit) :
                                    /\ s.audit[j].user = s.ctx.user
                                    /\ s.audit[j].guild = CurGuild(s, s.ctx).id
                         ELSE /\ CountAlerts(s, "success") = 0
                              /\ AuditCalls(s) = {} /\ s.audit = <<>> /\ s.pending = <<>>
           /\ s.pc = "SimpleConfigSaverHandler"
                => \A e \in SaverEnv :
                      NoAudit(SimpleConfigSaverServe(s, [e EXCEPT !.auditOk = TRUE]))
                         = NoAudit(SimpleConfigSaverServe(s, [e EXCEPT !.auditOk = FALSE]))

\* C9, the steps: the goroutine that writes the audit entry (the one step
\* that leaves the request where it is) changes neither alerts nor response.
C9_AuditStep ==
    \A r \in Reqs :
       req'[r].pc = req[r].pc
          => /\ req'[r].tmpl = req[r].tmpl /\ req'[r].own = req[r].own
             /\ req'[r].resp = req[r].resp /\ req'[r].ctx = req[r].ctx

\* C9: success alert and audit entry on success only; the outcome of the
\* audit write changes neither alerts nor response
C9_SavedOnce == []C9_SuccessAlertAndAudit /\ [][C9_AuditStep]_vars

\* C9 witness: mainHandler returned nil; the success alert is there and the
\* audit entry was handed to a goroutine which could not write it.
C9_Witness ==
    \E r \in Reqs :
       /\ req[r].pc = "done" /\ Ran(req[r], "ControllerPostHandler")
       /\ Has(req[r].ctx.user)
       /\ Did(req[r], "go", "AddCPLogEntry") = 1
       /\ req[r].pending = <<>> /\ req[r].audit = <<>>
       /\ CountAlertText(req[r], "success", "Sucessfully saved! :')") = 1

\* the calls of a handler function that returns (TemplateData, error)
HandlerCalls(s) ==
    {i \in 1..Len(s.trace) :
        s.trace[i][1] = "call" /\ s.trace[i][2] \in {"f", "mainHandler"}}

ReportedErrors(s) ==
    {i \in 1..Len(s.trace) :
        s.trace[i][1] = "log" /\ s.trace[i][2] = "Web handler reported error"}

ApiCalls(s) ==
    {i \in 1..Len(s.trace) : s.trace[i][1] = "call" /\ s.trace[i][2] = "inner"}

\* APIHandler has returned and its inner function returned out
ApiReturned(s, out) ==
    /\ Ran(s, "APIHandler")
    /\ \E i \in ApiCalls(s) : s.trace[i][3] = out

\* the JSON text of {"ok": false, "error": msg} as encoding/json writes it
FailureEnvelope(msg) == "{\"error\":\"" \o msg \o "\",\"ok\":false}\n"

\* C11: for every non-nil error the inner function returns, public or not,
\* the body APIHandler writes is the object with "ok": false and "error":
\* the public message of a PublicError, the empty string of another error.
C11_ErrorEnvelope ==
    \A r \in Reqs : \A e \in Errs :
       (e # NoErr /\ ApiReturned(req[r], ApiError(e)))
          => /\ Len(req[r].resp.writes) = 1
             /\ req[r].resp.writes[1].body
                  = FailureEnvelope(IF e.kind = "public" THEN e.msg ELSE "")

\* C12: when the inner function returns nil the body is {"ok": true} and
\* the status is not 500.
C12_NilResultOkTrue ==
    \A r \in Reqs :
       ApiReturned(req[r], ApiNil)
          => /\ Len(req[r].resp.writes) = 1
             /\ req[r].resp.writes[1].body = "{\"ok\":true}\n"
             /\ req[r].resp.writes[1].code # 500

PassedMisc(s) == s.pc \notin {"idle", "MiscMiddleware"}

\* C14: every response for a request that is not for a static asset and
\* that passed MiscMiddleware carries the Strict-Transport-Security header,
\* in every state of the accepting flag, the shutting-down response too.
C14_HSTSOnEveryResponse ==
    \A r \in Reqs :
       (PassedMisc(req[r]) /\ ~IsStatic(req[r].path)) => req[r].resp.hsts

\* ----------------------------------------------------------- the context
ForwardingStages ==
    {"RedisMiddleware", "BaseTemplateDataMiddleware", "SessionMiddleware",
     "UserInfoMiddleware", "ActiveServerMW", "RequireGuildChannelsMiddleware",
     "RequireFullGuildMW", "RequireBotMemberMW", "RequirePermMW", "FormParserMW"}

ContextKeys == DOMAIN EmptyCtx

\* the context has an entry under key k
Present(c, k) == IF k \in {"redis", "tmpl", "channels"} THEN c[k] ELSE Has(c[k])

\* the step is the call of inner by the stage the request r is in
Forwards(r) ==
    /\ req[r].pc \in ForwardingStages
    /\ Len(req'[r].trace) > Len(req[r].trace)
    /\ req'[r].trace[Len(req'[r].trace)] = <<"serve", req[r].pc, req'[r].pc>>

C15_Step ==
    \A r \in Reqs :
       Forwards(r)
          => \A k \in ContextKeys :
                Present(req[r].ctx, k) => req'[r].ctx[k] = req[r].ctx[k]

\* C15: the context is append-only: when one of the forwarding stages
\* calls inner, every entry the context had when the stage started is in
\* the context inner receives, bound to the same object.
C15_ContextAppendOnly == [][C15_Step]_vars

\* C15 witness: a request went through the stages up to RequirePermMW and
\* still has the session, user, list, guild and bot member entries
C15_Witness ==
    \E r \in Reqs :
       /\ \A h \in ForwardingStages \ {"FormParserMW"} : Calls(req[r], h) = 1
       /\ \A k \in {"session", "user", "guilds", "curGuild", "botMember", "perms"} :
             Has(req[r].ctx[k])
       /\ req[r].ctx.redis /\ req[r].ctx.tmpl /\ req[r].ctx.channels

\* ----------------------------------------------------- UserInfoMiddleware
UserKey(s) == <<Val(s.ctx.session), ":user">>

GuildsKey(s) == <<Val(s.ctx.session), ":guilds">>

\* the positions of the trace with the event e
At(s, e) == {i \in 1..Len(s.trace) : s.trace[i] = e}

\* the writes to the cache under key
Sets(s, key) ==
    {i \in 1..Len(s.trace) :
        s.trace[i][1] = "cache" /\ s.trace[i][2] = "SET" /\ s.trace[i][3] = key}

\* the lookup under key missed and the live call api failed
FetchFailed(s, key, api) ==
    \E i \in At(s, <<"cache", "GET", key, "miss">>) :
       i < Len(s.trace) /\ s.trace[i + 1] = <<"api", api, "err">>

LoggedOutUntouched(s, key) ==
    /\ Did(s, "call", "HandleLogout") = 1
    /\ Calls(s, "UserInfoMiddleware") = 0
    /\ Sets(s, key) = {}
    /\ ~Has(s.ctx.user) /\ ~Has(s.ctx.guilds)
    /\ s.tmpl.keys \cap {"User", "Guilds", "ManagedGuilds"} = {}
    /\ s.tmpl.managed = <<>>

\* C16: when the cache has no entry and the live call fails, for the user
\* or for the membership list, HandleLogout is called, inner is never
\* invoked, and neither the user, the list nor their render data is added
\* to the context, nor is the failed item written to the cache.
C16_FetchFailureLogsOut ==
    \A r \in Reqs :
       LET s == req[r]
       IN  Has(s.ctx.session)
              => /\ FetchFailed(s, UserKey(s), "User") => LoggedOutUntouched(s, UserKey(s))
                 /\ FetchFailed(s, GuildsKey(s), "UserGuilds")
                       => LoggedOutUntouched(s, GuildsKey(s))

\* C16 witness: the user came from the platform, the list could not be had
C16_Witness ==
    \E r \in Reqs :
       LET s == req[r]
       IN  /\ Has(s.ctx.session)
           /\ At(s, <<"api", "User", "ok">>) # {}
           /\ FetchFailed(s, GuildsKey(s), "UserGuilds")
           /\ RedirectedTo(s, <<"/">>)
           /\ s.pc = "done"

\* ------------------------------------------- without a cache, the session
SessionChain == {"RedisMiddleware", "SessionMiddleware", "UserInfoMiddleware"}

\* the pool gave the request no client
NoClient(s) == Did(s, "pool", "GetFailed") = 1

\* h has called inner, and the handler called has not run yet
JustForwarded(s, h) ==
    s.trace # <<>> /\ s.trace[Len(s.trace)] = <<"serve", h, s.pc>>

\* the request never has a session, a user or a membership list, looks
\* neither up in the cache nor at the platform, and once UserInfoMiddleware
\* has called inner each stage has done so once, with nothing written
ServedWithoutCache(s) ==
    /\ ~s.ctx.redis /\ ~Has(s.ctx.session) /\ ~Has(s.ctx.user) /\ ~Has(s.ctx.guilds)
    /\ Did(s, "cache", "GET") = 0 /\ Did(s, "cache", "SET") = 0
    /\ Did(s, "api", "User") = 0 /\ Did(s, "api", "UserGuilds") = 0
    /\ Did(s, "call", "GetAuthToken") = 0 /\ Did(s, "call", "HandleLogout") = 0
    /\ \A h \in SessionChain : Calls(s, h) <= 1
    /\ Ran(s, "UserInfoMiddleware") => \A h \in SessionChain : Calls(s, h) = 1
    /\ JustForwarded(s, "UserInfoMiddleware") => s.resp.writes = <<>>

\* a session is in the context exactly when the cookie was sent, the cache
\* client is there, the token was found and the handle could be made
SessionOnlyWhenAll(s) ==
    /\ Calls(s, "SessionMiddleware") = 1
    /\ Has(s.ctx.session)
          <=> /\ s.cookie /\ s.ctx.redis
              /\ Did(s, "call", "GetAuthToken") = 1
              /\ At(s, <<"call", "GetAuthToken", "ok">>) # {}
              /\ At(s, <<"call", "discordgo.New", "ok">>) # {}

\* C17: without a cache client RedisMiddleware, SessionMiddleware and
\* UserInfoMiddleware each forward exactly once, with no session, user or
\* list and without writing a redirect or an error; SessionMiddleware
\* attaches a session only when the cookie is present, the cache client is
\* present, the token lookup succeeds and the handle is constructed, and
\* otherwise forwards exactly once with no session.
C17_DegradesWithoutCache ==
    \A r \in Reqs :
       /\ NoClient(req[r]) => ServedWithoutCache(req[r])
       /\ Ran(req[r], "SessionMiddleware") => SessionOnlyWhenAll(req[r])

\* C17 witness: a request with the cookie but no cache client reached the
\* page behind UserInfoMiddleware
C17_Witness ==
    \E r \in Reqs :
       /\ NoClient(req[r]) /\ req[r].cookie
       /\ JustForwarded(req[r], "UserInfoMiddleware")
       /\ req[r].pc = "ControllerHandler"
       /\ ~Has(req[r].ctx.session) /\ req[r].resp.writes = <<>>

\* ------------------------------------------------------- the active guild
\* path ids that are no 64-bit integers: no number, empty, 2^63
NoIds ==
    {<<"x">>, <<>>,
     <<"9", "2", "2", "3", "3", "7", "2", "0", "3", "6", "8", "5", "4", "7", "7", "5", "8", "0", "8">>}

\* ActiveServerMW looked nothing up and stored nothing
NothingActive(s) ==
    /\ Fetches(s, "setFullGuild") = {}
    /\ ~Has(s.ctx.curGuild) /\ ~Has(s.ctx.userGuild)
    /\ s.gobj = <<>>
    /\ Calls(s, "ActiveServerMW") = 1

\* C18: a path id that does not parse as a 64-bit integer makes
\* ActiveServerMW look nothing up and store no active guild, and forward
\* once; a following RequireActiveServer then redirects to
\* /?err=no_active_guild and never invokes inner. RequireActiveServer
\* forwards only with an active guild in the context, and
\* RequireServerAdminMiddleware only when the admin check passes, and
\* redirects to /?err=noaccess otherwise.
C18_GatesOnActiveGuild ==
    \A r \in Reqs :
       LET s == req[r]
       IN  /\ (Ran(s, "ActiveServerMW") /\ s.server \in NoIds)
                => /\ NothingActive(s)
                   /\ Ran(s, "RequireActiveServer")
                        => /\ RedirectedTo(s, <<"/?err=no_active_guild">>)
                           /\ Calls(s, "RequireActiveServer") = 0
           /\ Ran(s, "RequireActiveServer")
                => IF Has(s.ctx.curGuild) THEN Calls(s, "RequireActiveServer") = 1
                   ELSE /\ Calls(s, "RequireActiveServer") = 0
                        /\ RedirectedTo(s, <<"/?err=no_active_guild">>)
           /\ Ran(s, "RequireServerAdminMiddleware")
                => IF IsAdminCtx(s.ctx) THEN Calls(s, "RequireServerAdminMiddleware") = 1
                   ELSE /\ Calls(s, "RequireServerAdminMiddleware") = 0
                        /\ RedirectedTo(s, <<"/?err=noaccess">>)

\* C18 witness: the id 2^63 was turned away by RequireActiveServer
C18_Witness ==
    \E r \in Reqs :
       /\ Ran(req[r], "RequireActiveServer")
       /\ Len(req[r].server) = 19
       /\ Has(req[r].ctx.guilds)
       /\ RedirectedTo(req[r], <<"/?err=no_active_guild">>)

\* ------------------------------------------------------------- the cache
\* the positions of the lookups of key in the cache, with the outcome
Lookups(s, key, outcome) ==
    {i \in 1..Len(s.trace) :
        /\ s.trace[i][1] = "cache" /\ s.trace[i][2] = "GET"
        /\ s.trace[i][3] = key /\ s.trace[i][4] = outcome}

\* the positions of the live calls of api
LiveCalls(s, api) ==
    {i \in 1..Len(s.trace) : s.trace[i][1] = "api" /\ s.trace[i][2] = api}

\* UserInfoMiddleware called inner at a position before i
InnerRanBefore(s, i) ==
    \E j \in 1..(i - 1) : s.trace[j][1] = "serve" /\ s.trace[j][2] = "UserInfoMiddleware"

\* the cache goes first and is filled on a miss, for one item
CacheFirstFor(s, key, api, ttl) ==
    LET hits == Lookups(s, key, "hit")
        misses == Lookups(s, key, "miss")
        live == LiveCalls(s, api)
        sets == Sets(s, key)
    IN  /\ Cardinality(hits \cup misses) <= 1
        /\ \A i \in live : (i - 1) \in misses
        /\ \A i \in misses : (i + 1) \in live
        /\ \A i \in sets :
              /\ (i - 1) \in live /\ s.trace[i - 1][3] = "ok"
              /\ s.trace[i][4] = ttl
              /\ ~InnerRanBefore(s, i)
        /\ \A i \in live : s.trace[i][3] = "ok" => (i + 1) \in sets
        /\ hits # {} => live = {} /\ sets = {}

\* the response has the redirect of a failed GetWrapped
RedisErr(s) ==
    \E i \in 1..Len(s.resp.writes) : s.resp.writes[i].loc = <<"/?err=rediserr">>

\* a write to the cache failed
WriteBackFailed(s) ==
    \E i \in 1..Len(s.trace) :
       s.trace[i][1] = "cache" /\ s.trace[i][2] = "SET" /\ s.trace[i][5] = "err"

\* C19: UserInfoMiddleware asks the cache first and fills it on a miss, for
\* the user and for the membership list each: the platform is called only
\* after the lookup under <token>:user / <token>:guilds failed; after a miss
\* and a successful call the value is written under the same key (the user
\* with 3600 seconds, the list without an expiration) before inner runs; on
\* a hit there is no call and no write; a failed write does not stop the
\* request.
C19_CacheFirstFillOnMiss ==
    \A r \in Reqs :
       LET s == req[r]
       IN  IF ~Has(s.ctx.session)
           THEN Did(s, "cache", "GET") = 0 /\ Did(s, "cache", "SET") = 0
           ELSE /\ CacheFirstFor(s, <<Val(s.ctx.session), ":user">>, "User", 3600)
                /\ CacheFirstFor(s, <<Val(s.ctx.session), ":guilds">>, "UserGuilds", 0)
                /\ (/\ Ran(s, "UserInfoMiddleware") /\ WriteBackFailed(s)
                    /\ Did(s, "call", "HandleLogout") = 0 /\ ~RedisErr(s))
                      => Calls(s, "UserInfoMiddleware") = 1

\* C19 witness: the user was in the cache, the list was fetched, its write
\* failed, and inner ran
C19_Witness ==
    \E r \in Reqs :
       LET s == req[r]
       IN  /\ Has(s.ctx.session)
           /\ Lookups(s, UserKey(s), "hit") # {}
           /\ Lookups(s, GuildsKey(s), "miss") # {}
           /\ Sets(s, GuildsKey(s)) # {} /\ WriteBackFailed(s)
           /\ Calls(s, "UserInfoMiddleware") = 1
           /\ Has(s.ctx.user) /\ Has(s.ctx.guilds)

\* ------------------------------------------------- the stub and its upgrade
\* the entry of the membership list with the id of the path
MemberEntry(s) ==
    IF Has(s.ctx.guilds) THEN FindUserGuild(Val(s.ctx.guilds), s.server) ELSE None

\* the fetches of RequireFullGuildMW that gave a guild
Upgrades(s) == {i \in Fetches(s, "RequireFullGuildMW") : s.trace[i][3] = "ok"}

\* ActiveServerMW, the id of the path is in the membership list: nothing is
\* fetched, the entry and a guild with its id and name are in the context,
\* and until RequireFullGuildMW fills the guild it has no owner and no roles
C20_Stub ==
    \A r \in Reqs :
       LET s == req[r]
       IN  (Ran(s, "ActiveServerMW") /\ Has(MemberEntry(s)))
              => /\ Fetches(s, "setFullGuild") = {}
                 /\ s.ctx.userGuild = MemberEntry(s)
                 /\ Has(s.ctx.curGuild)
                 /\ CurGuild(s, s.ctx).id = Val(MemberEntry(s)).id
                 /\ CurGuild(s, s.ctx).name = Val(MemberEntry(s)).name
                 /\ Upgrades(s) = {}
                       => /\ CurGuild(s, s.ctx).owner = ""
                          /\ CurGuild(s, s.ctx).region = ""
                          /\ CurGuild(s, s.ctx).roles = <<>>

\* a step of RequireFullGuildMW for a request with an active guild
C20_Step ==
    \A r \in Reqs :
       LET s == req[r]
           t == req'[r]
           h == "RequireFullGuildMW"
       IN  (s.pc = h /\ t.pc # h /\ Has(s.ctx.curGuild))
              => LET g == CurGuild(s, s.ctx)
                     fetched == Fetches(t, h) \ Fetches(s, h)
                 IN  /\ t.ctx.curGuild = s.ctx.curGuild
                     /\ Len(t.gobj) = Len(s.gobj)
                     /\ CurGuild(t, t.ctx).id = g.id /\ CurGuild(t, t.ctx).name = g.name
                     /\ IF g.owner # ""
                        THEN /\ fetched = {} /\ t.gobj = s.gobj
                             /\ Calls(t, h) = Calls(s, h) + 1
                        ELSE /\ Cardinality(fetched) = 1
                             /\ \A i \in fetched :
                                  IF t.trace[i][3] = "ok"
                                  THEN /\ CurGuild(t, t.ctx)
                                            = [g EXCEPT !.owner = Val(t.trace[i][5]).owner,
                                                        !.region = Val(t.trace[i][5]).region,
                                                        !.roles = Val(t.trace[i][5]).roles]
                                       /\ Calls(t, h) = Calls(s, h) + 1
                                  ELSE /\ t.gobj = s.gobj /\ t.ctx = s.ctx
                                       /\ Calls(t, h) = Calls(s, h)
                                       /\ t.pc = "unwind"
                                       /\ t.resp.writes
                                            = Append(s.resp.writes,
                                                     [code |-> 307, body |-> "",
                                                      loc |-> <<"/?err=errretrievingguild">>])
                     /\ Calls(t, h) > Calls(s, h)
                          => \A got \in GetGuildResults(g.id) :
                                LET again == RequireFullGuildServe(t, got, "ControllerHandler")
                                IN  /\ Fetches(again, h) = Fetches(t, h)
                                    /\ again.gobj = t.gobj

\* C20: when the id of the path is in the membership list ActiveServerMW
\* fetches nothing and stores the entry and a stub guild (id and name, no
\* owner, no roles); RequireFullGuildMW fetches only when the owner is
\* empty, copies owner, region and roles into the same object (id and name
\* stay) and forwards; with the owner set it forwards with no fetch and no
\* change, so it fetches at most once when run twice; when the fetch fails
\* it redirects to /?err=errretrievingguild, changes nothing and never
\* invokes inner.
C20_StubThenUpgrade == []C20_Stub /\ [][C20_Step]_vars

\* C20 witness: the stub of a member's guild was filled by RequireFullGuildMW
C20_Witness ==
    \E r \in Reqs :
       LET s == req[r]
       IN  /\ Ran(s, "RequireFullGuildMW") /\ Has(MemberEntry(s))
           /\ Upgrades(s) # {} /\ Fetches(s, "setFullGuild") = {}
           /\ CurGuild(s, s.ctx).owner # "" /\ CurGuild(s, s.ctx).roles # <<>>
           /\ CurGuild(s, s.ctx).name = Val(MemberEntry(s)).name

\* ----------------------------------------------------- the bot's membership
\* the positions of the lookups at the sidecar, and of those that failed
SidecarLookups(s) ==
    {i \in 1..Len(s.trace) : s.trace[i][1] = "botrest" /\ s.trace[i][2] = "GetBotMember"}

\* the positions of the fetches of the member from the platform
MemberFetches(s) ==
    {i \in 1..Len(s.trace) : s.trace[i][1] = "api" /\ s.trace[i][2] = "GuildMember"}

Failed(s, at) == {i \in at : s.trace[i][3] = "err"}

\* the response has the redirect of RequireBotMemberMW
NoBotMemberRedirect(s) ==
    \E i \in 1..Len(s.resp.writes) :
       s.resp.writes[i] = [code |-> 307, body |-> "",
                           loc |-> <<"/?err=errFailedRetrievingBotMember">>]

\* C21: RequireBotMemberMW asks the sidecar first, always; the member is
\* fetched from the platform only after the sidecar lookup failed; the
\* request is redirected to /?err=errFailedRetrievingBotMember, and inner
\* not invoked, if and only if both failed; when either succeeds inner is
\* invoked exactly once.
C21_SidecarThenFallback ==
    \A r \in Reqs :
       LET s == req[r]
           sidecar == SidecarLookups(s)
           fetches == MemberFetches(s)
           bothFailed == Failed(s, sidecar) # {} /\ Failed(s, fetches) # {}
       IN  /\ \A i \in fetches : (i - 1) \in Failed(s, sidecar)
           /\ Cardinality(fetches) <= 1
           /\ ~Ran(s, "RequireBotMemberMW")
                 => sidecar = {} /\ ~NoBotMemberRedirect(s)
           /\ Ran(s, "RequireBotMemberMW")
                 => /\ Cardinality(sidecar) = 1
                    /\ \A i \in Failed(s, sidecar) : (i + 1) \in fetches
                    /\ NoBotMemberRedirect(s) <=> bothFailed
                    /\ Calls(s, "RequireBotMemberMW") = IF bothFailed THEN 0 ELSE 1

\* C21 witness: the sidecar failed, the platform gave the member, inner ran
C21_Witness ==
    \E r \in Reqs :
       LET s == req[r]
       IN  /\ Ran(s, "RequireBotMemberMW")
           /\ Failed(s, SidecarLookups(s)) # {}
           /\ MemberFetches(s) # {} /\ Failed(s, MemberFetches(s)) = {}
           /\ Calls(s, "RequireBotMemberMW") = 1 /\ Has(s.member)
           /\ s.resp.writes = <<>>

\* C22: whenever RequireBotMemberMW has found the bot's member and calls
\* inner, the context inner receives holds that member under the bot member
\* key: when the permissions were aggregated, when the active guild has no
\* roles, and when the context has no active guild.
C22_BotMemberForwarded ==
    \A r \in Reqs :
       (BotMemberFound(req[r]) /\ Calls(req[r], "RequireBotMemberMW") = 1)
          => req[r].ctx.botMember = req[r].member

====
